---- MODULE Spec2Model ----
(***************************************************************************)
(* Echo Grove (aromal-rm/carehack): the sensory proximity feedback core.   *)
(*                                                                         *)
(* Eight specifications over one set of variables:                         *)
(*   Spec          the discovery session: GameEngine, the active mode's    *)
(*                 discovery check, CreatureFactBox and its timers, the    *)
(*                 announcer's utterances and memory-clear timers;         *)
(*   SpecAudio     the useAudio hook instances (audio manager): the        *)
(*                 asynchronous initializeAudio / playSound /              *)
(*                 startForestAmbience / playCreatureSoundWithProximity;   *)
(*   SpecDispatch  the per-tick feedback dispatchers with a clock          *)
(*                 (ProximityEngine, AudioMode, MultiSensoryMode,          *)
(*                 VisualMode) and the start of the next level;            *)
(*   SpecSpeech    the announcers (useTalkBack instances) under arbitrary  *)
(*                 speak calls;                                            *)
(*   SpecDecoys    the decoy generator of GameEngine under arbitrary       *)
(*                 random samples;                                         *)
(*   SpecArena     the game area: resize and cursor movement;              *)
(*   SpecLoop      one audio manager instance whose sound file may fail to *)
(*                 load;                                                   *)
(*   SpecMapper    the proximity mappers of the four components over a     *)
(*                 grid of distances.                                      *)
(* Each specification leaves the other groups of variables at their        *)
(* initial values.                                                         *)
(***************************************************************************)
EXTENDS Integers, Sequences, FiniteSets, TLC

VARIABLES
  level,             \* GameEngine prop: 1..5
  accessibilityMode, \* GameEngine prop
  visualModeDef,     \* which of the two VisualMode definitions of VisualMode.tsx is built
  talkBackEnabled,   \* GameEngine prop
  engine,            \* GameEngine: its React state and the timers it started
  box,               \* CreatureFactBox: React state, refs and timer handles
  speech,            \* the announcers (useTalkBack instances) and window.speechSynthesis
  staleFired         \* timer callbacks that ran after their owner was unmounted:
                     \* <<timer, "session">> after GameEngine unmounted, else
                     \* <<timer, "component">>

VARIABLES
  audioPolicy,       \* the platform: "unsupported" (no AudioContext), "running"
                     \* (contexts start running) or "suspended" (autoplay policy)
  soundAsset,        \* the creature's sound file: "loads" or "missing"
  audio,             \* per component that calls useAudio(): the hook's refs
  calls,             \* the asynchronous calls of the audio manager, by call number
  nCalls,            \* calls made so far
  rejections         \* <<instance, function>> of calls whose promise rejected

VARIABLES
  multiSensoryDef,   \* which MultiSensoryMode is built: "MultiSensoryMode.tsx" or "part_001"
  now,               \* Date.now() at the latest position update, in ms
  nTicks,            \* position updates dispatched so far
  refs,              \* the dispatchers' useRef timestamps and last values
  published,         \* MultiSensoryMode's React state: proximity, decoyProximities
  emitted,           \* per feedback channel: the times of its last two commands
  tick               \* the latest position update: what its effects reached

sessionVars == <<level, accessibilityMode, visualModeDef, talkBackEnabled,
                 engine, box, speech, staleFired>>

audioVars == <<audioPolicy, soundAsset, audio, calls, nCalls, rejections>>

dispatchVars == <<multiSensoryDef, now, nTicks, refs, published, emitted, tick>>

VARIABLES
  said               \* the latest speak call and the announcer state it met

announceVars == <<said>>

VARIABLES
  creaturePos,       \* the scaled target position the generator measures from
  attempts,          \* failed samples for the decoy being placed
  result,            \* the decoys generated so far
  gameAreaSize,      \* <<width, height>> of the game area
  designPosition     \* currentCreature.position, in the 800 x 600 design

decoyVars == <<creaturePos, attempts, result, gameAreaSize, designPosition>>

VARIABLES
  sample             \* the latest proximity a mapper computed, and the one before

mapperVars == <<sample>>

VARIABLES
  pulse              \* the latest primary haptic command of the Multi-Sensory mode

hapticVars == <<pulse>>

vars == <<sessionVars, audioVars, dispatchVars, announceVars, decoyVars, mapperVars, hapticVars>>

(***************************************************************************)
(* The audio manager's state at rest (useAudio's refs after construction). *)
(***************************************************************************)
\* Calls of the audio manager a run makes at most.
MaxCalls == 3
CallIds == 1..MaxCalls

\* The components that call useAudio(); each call of the hook has its own refs.
Instances == {"engine", "proximity", "mode"}

FreshAudio ==
  [isInitialized |-> FALSE,
   ctxs |-> <<>>,       \* the AudioContexts created; audioContextRef is the last
   els |-> <<>>,        \* the Audio elements created for the creature's sound key
   element |-> 0,       \* audioElementsRef.get(key): index in els, 0 when absent
   active |-> 0,        \* activeCreatureSoundsRef.get(key): index in els, 0 when absent
   forests |-> <<>>]    \* the ambience elements created; forestAudioRef is the last

IdleCall == [inst |-> "none", fn |-> "none", prox |-> 0, pc |-> "idle", ctx |-> 0, el |-> 0]
\* A call that returned (or rejected) keeps who made it and with what.
DoneCall(c) == [c EXCEPT !.pc = "done", !.ctx = 0, !.el = 0]

AudioRest ==
  /\ audioPolicy = "running"
  /\ soundAsset = "loads"
  /\ audio = [i \in Instances |-> FreshAudio]
  /\ calls = [k \in CallIds |-> IdleCall]
  /\ nCalls = 0
  /\ rejections = {}

(***************************************************************************)
(* The dispatchers' state at rest (refs after construction).  Times are in *)
(* ms; proximities, intensities and volumes are in thousandths.            *)
(***************************************************************************)
MaxTicks == 3

\* Date.now() when the level mounts: later than every interval, as any real clock is.
StartTime == 2000

DecoyIds == {1, 2}
Channels == {"audio", "haptic", "decoyAudio", "decoyHaptic"}

FreshRefs ==
  [lastHapticTime       |-> 0,                        \* ProximityEngine
   lastAudioTimeRef     |-> 0,                        \* MultiSensoryMode
   lastHapticTimeRef    |-> 0,
   lastDecoyFeedbackRef |-> [d \in DecoyIds |-> 0],
   lastProximityRef     |-> 0,                        \* AudioMode
   lastPlayTimeRef      |-> 0,
   lastDecoyPlayTimeRef |-> [d \in DecoyIds |-> 0]]

FreshPublished == [proximity |-> 0, decoyProximities |-> [d \in DecoyIds |-> 0]]

NoCommand == [count |-> 0, prev |-> 0, last |-> 0, override |-> FALSE]

\* audioGap: the time since AudioMode's last primary audio command when the
\* update issued one, else 0.
NoTick == [ran |-> FALSE, level |-> 0, error |-> FALSE, published |-> FALSE,
           discoveryChecked |-> FALSE, audioGap |-> 0]

DispatchRest ==
  /\ multiSensoryDef = "MultiSensoryMode.tsx"
  /\ now = StartTime
  /\ nTicks = 0
  /\ refs = FreshRefs
  /\ published = FreshPublished
  /\ emitted = [c \in Channels |-> NoCommand]
  /\ tick = NoTick

(***************************************************************************)
(* The record of speak calls at rest.                                      *)
(***************************************************************************)
MaxSpeaks == 3

\* The latest utterance of an announcer that ended with no speak call of the
\* announcer since: its text, the memory-clear timers armed before its own,
\* and whether its own has fired.
NoneEnded == [text |-> "", ahead |-> 0, elapsed |-> FALSE]

NothingSaid ==
  [n |-> 0, owner |-> "none", text |-> "", priority |-> "none",
   lastBefore |-> "", inFlightBefore |-> 0, handedBefore |-> 0,
   afterGrace |-> FALSE,
   ended |-> [a \in {"engine", "box"} |-> NoneEnded]]

AnnounceRest == said = NothingSaid

Max(a, b) == IF a >= b THEN a ELSE b
Min(a, b) == IF a <= b THEN a ELSE b

Levels == 1..5
Modes == {"audio-first", "visual-first", "multi-sensory"}

(***************************************************************************)
(* Geometry.  Positions are integer points <<x, y>>.  A test               *)
(* `distance < t` of the source, distance = Math.sqrt(dx^2 + dy^2) and t   *)
(* a non-negative integer, is decided on the squares.                      *)
(***************************************************************************)
DistSq(p, q) == (p[1] - q[1]) * (p[1] - q[1]) + (p[2] - q[2]) * (p[2] - q[2])

DistanceBelow(p, q, t) == DistSq(p, q) < t * t

\* The target of the session (creature position after scaling).
creaturePosition == <<400, 300>>

\* No proximity computed yet.
NoSample ==
  [kind |-> "none", channel |-> "none", distance |-> 0, proximity |-> 0,
   prevKind |-> "none", prevDistance |-> 0, prevProximity |-> 0]

MapperRest == sample = NoSample

\* No haptic command issued yet.  pattern is what navigator.vibrate receives:
\* pulse and pause lengths in ms, alternating.
NoPulse == [def |-> "none", proximity |-> 0, pattern |-> <<>>]

HapticRest == pulse = NoPulse

\* The decoy generator at rest.
DecoyRest ==
  /\ gameAreaSize = <<800, 600>>
  /\ designPosition = creaturePosition
  /\ creaturePos = creaturePosition
  /\ attempts = 0
  /\ result = <<>>

\* The cursor positions the pointer events deliver.
CursorOffsets == {4, 12, 14, 16, 60}
CursorPositions ==
  {<<405, 302>>} \cup {<<400 + d, 300>> : d \in CursorOffsets}

(***************************************************************************)
(* Discovery threshold of each mode component.                             *)
(***************************************************************************)
autoDiscoveryThreshold(l) == Max(5, 20 - (l * 3))

\* VisualMode.tsx holds two definitions of VisualMode; the second one
\* discovers below a fixed distance.
VisualModeFixedThreshold == 15

\* `distance < threshold` at the end of the active mode component's effect.
DiscoveryCheck(mode, vdef, l, cursor) ==
  CASE mode = "audio-first" ->
         DistanceBelow(cursor, creaturePosition, autoDiscoveryThreshold(l))
    [] mode = "multi-sensory" ->
         DistanceBelow(cursor, creaturePosition, autoDiscoveryThreshold(l))
    [] mode = "visual-first" /\ vdef = 1 ->
         DistanceBelow(cursor, creaturePosition, autoDiscoveryThreshold(l))
    [] mode = "visual-first" /\ vdef = 2 ->
         DistanceBelow(cursor, creaturePosition, VisualModeFixedThreshold)

(***************************************************************************)
(* Narration announcer (useTalkBack).  Each component that calls the hook  *)
(* owns its own lastSpokenTextRef and utteranceRef; window.speechSynthesis *)
(* is one queue shared by all of them.                                     *)
(***************************************************************************)
Announcers == {"engine", "box"}
Texts == {"", "intro", "found", "fact"}

\* speak without the repetition test.
speakNoDedupe(sp, owner, text, priority, enabled) ==
  IF ~enabled THEN sp
  ELSE LET q == IF priority = "assertive" /\ sp.utteranceRef[owner]
                  THEN <<>>
                  ELSE sp.queue
       IN [sp EXCEPT !.lastSpokenText[owner] = text,
                     !.utteranceRef[owner] = TRUE,
                     !.queue = Append(q, [owner |-> owner, text |-> text]),
                     !.handed = @ + 1]

\* speak that never cancels.
speakNoCancel(sp, owner, text, priority, enabled) ==
  IF ~enabled THEN sp
  ELSE IF sp.lastSpokenText[owner] = text /\ priority # "assertive" THEN sp
  ELSE [sp EXCEPT !.lastSpokenText[owner] = text,
                  !.utteranceRef[owner] = TRUE,
                  !.queue = Append(sp.queue, [owner |-> owner, text |-> text]),
                  !.handed = @ + 1]

speak(sp, owner, text, priority, enabled) ==
  IF ~enabled THEN sp
  ELSE IF sp.lastSpokenText[owner] = text /\ priority # "assertive" THEN sp
  ELSE LET q == IF priority = "assertive" /\ sp.utteranceRef[owner]
                  THEN <<>>            \* window.speechSynthesis.cancel()
                  ELSE sp.queue
       IN [sp EXCEPT !.lastSpokenText[owner] = text,
                     !.utteranceRef[owner] = TRUE,
                     !.queue = Append(q, [owner |-> owner, text |-> text]),
                     !.handed = @ + 1]   \* window.speechSynthesis.speak(utterance)

(***************************************************************************)
(* GameEngine handlers, as functions of the component's state.             *)
(***************************************************************************)
\* handleCreatureFound: the React state and the delayed one-shot sound.
\* The guard reads the isFound of the render that created the callback.
handleCreatureFound(e) ==
  IF e.renderedIsFound THEN e
  ELSE [e EXCEPT !.isFound = TRUE,
                 !.soundTimers = @ + 1,     \* setTimeout(playSound, 500)
                 !.showFact = TRUE]

\* handleCreatureFound: the urgent announcement.
handleCreatureFoundAnnounce(e, sp) ==
  IF e.renderedIsFound THEN sp
  ELSE speak(sp, "engine", "found", "assertive", talkBackEnabled)

\* A variant that also forgets the discovery, as a reset for the next level would.
handleFactCompleteResetsFound(e) ==
  [e EXCEPT !.showFact = FALSE, !.isFound = FALSE,
            !.levelCompleteCalls = @ + 1]

\* handleFactComplete: passed to the fact box both as onClose and as onComplete.
handleFactComplete(e) ==
  [e EXCEPT !.showFact = FALSE,
            !.levelCompleteCalls = @ + 1]   \* onLevelComplete()

(***************************************************************************)
(* CreatureFactBox.  A timer handle of timersRef is "unset" (undefined),   *)
(* "live" (the id of a pending timer) or "dead" (the id of a timer that    *)
(* fired or was cleared).                                                  *)
(***************************************************************************)
CountdownStart == 5

Cleared(h) == IF h = "live" THEN "dead" ELSE h

\* A cleanup that forgets the countdown interval.
clearTimersSpeechOnly(b) ==
  [b EXCEPT !.speechTimer = Cleared(@)]

\* clearTimeout(speechTimer); clearInterval(countdownInterval): the effect's
\* first lines and both cleanup functions.
clearTimers(b) ==
  [b EXCEPT !.speechTimer = Cleared(@),
            !.countdownInterval = Cleared(@)]

startCountdown(b) ==
  [b EXCEPT !.isNarrating = FALSE,
            !.countdownValue = CountdownStart,
            !.countdown = CountdownStart,
            !.orphanTimers = @ + (IF b.countdownInterval = "live" THEN 1 ELSE 0),
            !.countdownInterval = "live"]

\* The body of the effect on [creature.name, fact, speak, onComplete, talkBackEnabled].
FactBoxEffect(b) ==
  LET b1 == clearTimers(b) IN
  IF ~b1.hasSpoken /\ talkBackEnabled
    THEN [b1 EXCEPT !.hasSpoken = TRUE,
                    !.orphanTimers = @ + (IF b1.speechTimer = "live" THEN 1 ELSE 0),
                    !.speechTimer = "live"]
    ELSE IF ~talkBackEnabled THEN startCountdown(b1) ELSE b1

FactBoxEffectAnnounce(b, sp) ==
  IF ~b.hasSpoken /\ talkBackEnabled
    THEN speak(sp, "box", "fact", "polite", talkBackEnabled)
    ELSE sp

\* The interval callback: the box's part.
CountdownCallback(b) ==
  LET v == b.countdownValue - 1
      b1 == [b EXCEPT !.countdownValue = v,
                      !.countdown = IF b.mounted THEN v ELSE @]
  IN IF v <= 0
       THEN [b1 EXCEPT !.countdownInterval = "unset",   \* clearInterval
                       !.completedRef = TRUE]
       ELSE b1

\* The interval callback calls onComplete() when it reaches zero first.
CountdownCompletes(b) == b.countdownValue - 1 <= 0 /\ ~b.completedRef

\* Unmounting runs the cleanup of both effects.
UnmountBox(b) == [clearTimers(b) EXCEPT !.mounted = FALSE]

FreshBox ==
  [mounted |-> FALSE, isNarrating |-> TRUE, countdown |-> CountdownStart,
   hasSpoken |-> FALSE, completedRef |-> FALSE,
   speechTimer |-> "unset", countdownInterval |-> "unset",
   countdownValue |-> CountdownStart, orphanTimers |-> 0]

\* handleClose: onClose(), then onComplete() unless already completed.
handleClose(e, b) ==
  LET e1 == handleFactComplete(e) IN
  IF ~b.completedRef THEN handleFactComplete(e1) ELSE e1

handleCloseBox(b) == [b EXCEPT !.completedRef = TRUE]

(***************************************************************************)
(* The discovery session: initial state (after GameEngine's mount effects) *)
(* and its events.                                                         *)
(***************************************************************************)
sessionFrame == <<level, accessibilityMode, visualModeDef, talkBackEnabled,
                  audioVars, dispatchVars, announceVars, decoyVars, mapperVars, hapticVars>>

NoSpeech ==
  [queue |-> <<>>,
   lastSpokenText |-> [a \in Announcers |-> ""],
   utteranceRef |-> [a \in Announcers |-> FALSE],
   clearTimers |-> [a \in Announcers |-> 0],
   handed |-> 0]

InitialCursor == <<100, 100>>

\* Record of a timer callback that runs while its owner is unmounted.
Stale(timer, ownerMounted) ==
  IF ownerMounted THEN staleFired
  ELSE staleFired \cup {<<timer, IF engine.mounted THEN "component" ELSE "session">>}

\* GameEngine's state after mounting: the useState initial values.
FreshEngine ==
  [mounted |-> TRUE, cursorPosition |-> InitialCursor,
   isFound |-> FALSE, showFact |-> FALSE,
   renderedIsFound |-> FALSE,     \* isFound as the committed render saw it
   soundTimers |-> 0, playSoundCalls |-> 0,
   levelCompleteCalls |-> 0]

SessionInit ==
  /\ level \in Levels
  /\ accessibilityMode \in Modes
  /\ visualModeDef \in {1, 2}
  /\ accessibilityMode # "visual-first" => visualModeDef = 1
  /\ talkBackEnabled \in BOOLEAN
  /\ engine = FreshEngine
  /\ box = FreshBox
  /\ speech = speak(NoSpeech, "engine", "intro", "polite", talkBackEnabled)
  /\ staleFired = {}

\* The session's variables while another specification runs.
SessionIdle ==
  /\ talkBackEnabled = FALSE
  /\ engine = FreshEngine
  /\ box = FreshBox
  /\ speech = NoSpeech
  /\ staleFired = {}

SessionRest ==
  /\ level = 1
  /\ accessibilityMode = "multi-sensory"
  /\ visualModeDef = 1
  /\ SessionIdle

\* Entry actions of the Found transition run so far (one timer per entry).
FoundEntries(e) == e.soundTimers + e.playSoundCalls

\* Discoveries handled before the render that commits isFound.
MaxEntries == 2

\* handleMouseMove / handleTouch, the render of the new cursor position, then
\* the active mode component's effect.  Handler and effect belong to a render
\* in which isFound is still false until the found render is committed.
MouseMove(p) ==
  /\ engine.mounted /\ ~engine.renderedIsFound
  /\ FoundEntries(engine) < MaxEntries
  /\ LET e1 == [engine EXCEPT !.cursorPosition = p]
         found == DiscoveryCheck(accessibilityMode, visualModeDef, level, p)
     IN /\ engine' = IF found THEN handleCreatureFound(e1) ELSE e1
        /\ speech' = IF found THEN handleCreatureFoundAnnounce(e1, speech)
                              ELSE speech
  /\ UNCHANGED <<sessionFrame, box, staleFired>>

\* handleKeyDown with Enter or Space: the explicit confirm.
KeyEnter ==
  /\ engine.mounted /\ ~engine.renderedIsFound
  /\ FoundEntries(engine) < MaxEntries
  /\ engine' = handleCreatureFound(engine)
  /\ speech' = handleCreatureFoundAnnounce(engine, speech)
  /\ UNCHANGED <<sessionFrame, box, staleFired>>

\* The render after setIsFound(true) and setShowFact(true): the handlers are
\* re-created with isFound true, the fact box mounts and runs its effect.
MountFactBox ==
  /\ engine.mounted /\ engine.showFact /\ ~box.mounted
  /\ engine' = [engine EXCEPT !.renderedIsFound = engine.isFound]
  /\ LET b0 == [FreshBox EXCEPT !.mounted = TRUE]
     IN /\ box' = FactBoxEffect(b0)
        /\ speech' = FactBoxEffectAnnounce(b0, speech)
  /\ UNCHANGED <<sessionFrame, staleFired>>

\* A re-render hands the box a new onComplete: cleanup, then the effect again.
FactBoxPropsChange ==
  /\ engine.mounted /\ engine.showFact /\ box.mounted
  /\ LET b0 == clearTimers(box)
     IN /\ box' = FactBoxEffect(b0)
        /\ speech' = FactBoxEffectAnnounce(b0, speech)
  /\ UNCHANGED <<sessionFrame, engine, staleFired>>

\* The narration-duration timeout fires.
SpeechTimerFire ==
  /\ box.speechTimer = "live"
  /\ box' = startCountdown([box EXCEPT !.speechTimer = "dead"])
  /\ staleFired' = Stale("narration", box.mounted)
  /\ UNCHANGED <<sessionFrame, engine, speech>>

\* One tick of the countdown interval.
CountdownTick ==
  /\ box.countdownInterval = "live"
  /\ box' = CountdownCallback(box)
  /\ engine' = IF CountdownCompletes(box) THEN handleFactComplete(engine)
                                          ELSE engine
  /\ staleFired' = Stale("countdown", box.mounted)
  /\ UNCHANGED <<sessionFrame, speech>>

\* A click on the close button; the render that follows the click unmounts the box.
CloseClick ==
  /\ engine.mounted /\ box.mounted
  /\ engine' = handleClose(engine, box)
  /\ box' = UnmountBox(handleCloseBox(box))
  /\ UNCHANGED <<sessionFrame, speech, staleFired>>

\* The render after the countdown's setShowFact(false).
UnmountFactBox ==
  /\ engine.mounted /\ box.mounted /\ ~engine.showFact
  /\ box' = UnmountBox(box)
  /\ UNCHANGED <<sessionFrame, engine, speech, staleFired>>

\* The 500 ms timeout of handleCreatureFound fires and calls playSound.
SoundTimerFire ==
  /\ engine.soundTimers > 0
  /\ engine' = [engine EXCEPT !.soundTimers = @ - 1, !.playSoundCalls = @ + 1]
  /\ staleFired' = Stale("targetSound", engine.mounted)
  /\ UNCHANGED <<sessionFrame, box, speech>>

AnnouncerMounted(a) == IF a = "engine" THEN engine.mounted ELSE box.mounted

\* utterance.onend of the utterance at the head of the queue: it arms the
\* memory-clear timer of the announcer that spoke it.
onend(sp) ==
  [sp EXCEPT !.queue = Tail(@),
             !.clearTimers[Head(sp.queue).owner] = @ + 1]

\* A timeout that leaves the memory as it is.
memoryClearKeeps(sp, a) ==
  [sp EXCEPT !.clearTimers[a] = @ - 1]

\* The timeout armed by onend: lastSpokenTextRef.current = ''.
memoryClear(sp, a) ==
  [sp EXCEPT !.clearTimers[a] = @ - 1,
             !.lastSpokenText[a] = ""]

\* The utterance at the head of the queue ends.
UtteranceEnd ==
  /\ speech.queue # <<>>
  /\ speech' = onend(speech)
  /\ UNCHANGED <<sessionFrame, engine, box, staleFired>>

\* The 1 s memory-clear timeout of an announcer fires.
MemoryClearFire(a) ==
  /\ speech.clearTimers[a] > 0
  /\ speech' = memoryClear(speech, a)
  /\ staleFired' = Stale("memoryClear", AnnouncerMounted(a))
  /\ UNCHANGED <<sessionFrame, engine, box>>

\* Session teardown: GameEngine and its children unmount.
Teardown ==
  /\ engine.mounted
  /\ engine' = [engine EXCEPT !.mounted = FALSE]
  /\ box' = IF box.mounted THEN UnmountBox(box) ELSE box
  /\ UNCHANGED <<sessionFrame, speech, staleFired>>

SessionNext ==
  \/ \E p \in CursorPositions : MouseMove(p)
  \/ KeyEnter
  \/ MountFactBox
  \/ FactBoxPropsChange
  \/ SpeechTimerFire
  \/ CountdownTick
  \/ CloseClick
  \/ UnmountFactBox
  \/ SoundTimerFire
  \/ UtteranceEnd
  \/ \E a \in Announcers : MemoryClearFire(a)
  \/ Teardown

Init == SessionInit /\ AudioRest /\ DispatchRest /\ AnnounceRest /\ DecoyRest /\ MapperRest /\ HapticRest

Next == SessionNext

Spec == Init /\ [][Next]_vars

(***************************************************************************)
(* The audio manager (useAudio).  Proximities and volumes are in           *)
(* thousandths.  An async function runs atomically from one await to the   *)
(* next; a call's pc names the await it is parked at:                      *)
(*   "awaitInit"    await initializeAudio(), itself parked at              *)
(*                  await audioContextRef.current.resume()                 *)
(*   "awaitResume"  startForestAmbience's own await of resume()            *)
(*   "awaitPlay"    await audio.play()                                     *)
(***************************************************************************)
RECURSIVE SqrtBetween(_, _, _)
SqrtBetween(n, lo, hi) ==
  IF lo = hi THEN lo
  ELSE LET mid == (lo + hi + 1) \div 2
       IN IF mid * mid <= n THEN SqrtBetween(n, mid, hi)
                            ELSE SqrtBetween(n, lo, mid - 1)

\* Math.floor(Math.sqrt(n)) for 0 <= n <= 1000000
ISqrt(n) == SqrtBetween(n, 0, 1000)

\* 0.1 + Math.pow(proximity, 1.5), without the scaling to 0.9.
VolumeUnscaled(prox) ==
  LET volumeCurve == (prox * ISqrt(prox * 1000)) \div 1000
  IN 100 + volumeCurve

\* 0.1 + Math.pow(proximity, 1.5) * 0.9
Volume(prox) ==
  LET volumeCurve == (prox * ISqrt(prox * 1000)) \div 1000
  IN 100 + (volumeCurve * 900) \div 1000

Abs(x) == IF x < 0 THEN -x ELSE x

\* A radius test that every proximity passes.
isInRadiusAlways(prox) == prox >= 0

\* const isInRadius = proximity > 0.1
isInRadius(prox) == prox > 100

\* new Audio(`sounds/creatures/${soundFile}`) of initializeAudio: volume 0.7.
\* error: the element's load failed (its error attribute is set).
NewElement == [paused |-> TRUE, pending |-> 0, volume |-> 700, error |-> FALSE]

\* new Audio('sounds/ambient/forest.mp3'): volume 0.3.
NewForest == [paused |-> TRUE, volume |-> 300]

\* initializeAudio after the context runs: preload the sounds and the ambience.
initializeAudioFinish(a) ==
  [a EXCEPT !.els = Append(@, NewElement),
            !.element = Len(a.els) + 1,
            !.forests = Append(@, NewForest),
            !.isInitialized = TRUE]

\* initializeAudio up to its await: r is "throws" (the constructor is missing;
\* the catch re-throws), "await" (parked at resume() of context ctx) or "done".
initializeAudioBegin(a) ==
  CASE audioPolicy = "unsupported" ->
         [a |-> a, r |-> "throws", ctx |-> 0]
    [] audioPolicy = "suspended" ->
         [a |-> [a EXCEPT !.ctxs = Append(@, "suspended")],
          r |-> "await", ctx |-> Len(a.ctxs) + 1]
    [] audioPolicy = "running" ->
         [a |-> initializeAudioFinish([a EXCEPT !.ctxs = Append(@, "running")]),
          r |-> "done", ctx |-> 0]

\* audio.play() sets paused to false at once, unless the element's load has
\* already failed: then it only returns a rejected promise.
played(el) == IF el.error THEN el.paused ELSE FALSE

\* The stop branch: activeSound.pause(); currentTime = 0; delete from the registry.
stopActive(a) ==
  [a EXCEPT !.els[a.active].paused = TRUE,
            !.els[a.active].pending = 0,
            !.active = 0]

\* playCreatureSoundWithProximity after initialization, to its end or to
\* `await audio.play()`.  aborted: the call whose pending play() the pause rejects.
playCreatureSoundBody(a, k, prox) ==
  IF isInRadius(prox)
    THEN IF a.active = 0 \/ a.els[a.active].paused
           THEN LET a1 == IF a.element = 0
                            THEN [a EXCEPT !.els = Append(@, NewElement),
                                           !.element = Len(a.els) + 1]
                            ELSE a
                    el == a1.element
                IN [a |-> [a1 EXCEPT !.active = el,
                                     !.els[el].volume = 100,
                                     !.els[el].paused = played(a1.els[el]),
                                     !.els[el].pending = k],
                    pc |-> "awaitPlay", el |-> el, aborted |-> 0]
           ELSE LET volume == Volume(prox)
                    cur == a.els[a.active].volume
                IN [a |-> IF Abs(cur - volume) > 50
                            THEN [a EXCEPT !.els[a.active].volume = volume]
                            ELSE a,
                    pc |-> "done", el |-> 0, aborted |-> 0]
    ELSE IF a.active # 0 /\ ~a.els[a.active].paused
           THEN [a |-> stopActive(a),
                 pc |-> "done", el |-> 0, aborted |-> a.els[a.active].pending]
           ELSE [a |-> a, pc |-> "done", el |-> 0, aborted |-> 0]

\* playSound after initialization, to `await audio.play()`.
playSoundBody(a, k) ==
  IF a.element # 0
    THEN [a |-> [a EXCEPT !.els[a.element].volume = 800,
                          !.els[a.element].paused = played(a.els[a.element]),
                          !.els[a.element].pending = k],
          pc |-> "awaitPlay", el |-> a.element, aborted |-> 0]
    ELSE [a |-> a, pc |-> "done", el |-> 0, aborted |-> 0]

\* forestAudioRef.current.play() when it is paused.
startForestAmbiencePlay(a) ==
  IF a.forests[Len(a.forests)].paused
    THEN [a EXCEPT !.forests[Len(a.forests)].paused = FALSE]
    ELSE a

\* startForestAmbience after initialization.
startForestAmbienceBody(a) ==
  LET a1 == IF a.forests = <<>> THEN [a EXCEPT !.forests = <<NewForest>>] ELSE a
  IN IF a1.ctxs # <<>> /\ a1.ctxs[Len(a1.ctxs)] = "suspended"
       THEN [a |-> a1, pc |-> "awaitResume", el |-> 0, aborted |-> 0]
       ELSE [a |-> startForestAmbiencePlay(a1), pc |-> "done", el |-> 0, aborted |-> 0]

FunctionBody(fn, a, k, prox) ==
  CASE fn = "playCreatureSoundWithProximity" -> playCreatureSoundBody(a, k, prox)
    [] fn = "playSound" -> playSoundBody(a, k)
    [] fn = "startForestAmbience" -> startForestAmbienceBody(a)

\* Only playCreatureSoundWithProximity awaits initializeAudio inside its try.
CatchesInitError(fn) == fn = "playCreatureSoundWithProximity"

\* Call k of instance i goes on from initialized state a to its next await.
Continue(i, k, fn, prox, a) ==
  LET r == FunctionBody(fn, a, k, prox)
      me == [inst |-> i, fn |-> fn, prox |-> prox, pc |-> r.pc,
             ctx |-> IF r.pc = "awaitResume" THEN Len(r.a.ctxs) ELSE 0,
             el |-> r.el]
  IN /\ audio' = [audio EXCEPT ![i] = r.a]
     /\ calls' = [c \in CallIds |->
                    IF c = k THEN (IF r.pc = "done" THEN DoneCall(me) ELSE me)
                    ELSE IF c = r.aborted THEN DoneCall(calls[c])
                    ELSE calls[c]]
     /\ UNCHANGED rejections

\* A component calls fn on its useAudio instance.
Call(i, fn, prox) ==
  LET k == nCalls + 1
      a == audio[i]
      me == [inst |-> i, fn |-> fn, prox |-> prox, pc |-> "idle", ctx |-> 0, el |-> 0]
  IN /\ nCalls < MaxCalls
     /\ nCalls' = k
     /\ UNCHANGED <<audioPolicy, soundAsset>>
     /\ IF a.isInitialized
          THEN Continue(i, k, fn, prox, a)
          ELSE LET b == initializeAudioBegin(a) IN
               CASE b.r = "throws" ->
                      /\ calls' = [calls EXCEPT ![k] = DoneCall(me)]
                      /\ rejections' = IF CatchesInitError(fn) THEN rejections
                                       ELSE rejections \cup {<<i, fn>>}
                      /\ UNCHANGED audio
                 [] b.r = "await" ->
                      /\ calls' = [calls EXCEPT ![k] =
                                     [me EXCEPT !.pc = "awaitInit", !.ctx = b.ctx]]
                      /\ audio' = [audio EXCEPT ![i] = b.a]
                      /\ UNCHANGED rejections
                 [] b.r = "done" -> Continue(i, k, fn, prox, b.a)

\* AudioMode's hasStartedAmbience ref: its mount effect has called startForestAmbience.
hasStartedAmbience ==
  \E k \in CallIds : calls[k].inst = "mode" /\ calls[k].fn = "startForestAmbience"

ProximityInputs == {50, 300, 900}

\* ProximityEngine and the mode component: a position update.
CallPlayCreatureSoundWithProximity(i, prox) ==
  /\ i \in {"proximity", "mode"}
  /\ engine.mounted
  /\ ~engine.isFound                     \* handleMouseMove ignores moves once found
  /\ (i = "mode" /\ accessibilityMode = "audio-first") => hasStartedAmbience
  /\ Call(i, "playCreatureSoundWithProximity", prox)
  /\ UNCHANGED <<sessionVars, dispatchVars, announceVars, decoyVars, mapperVars, hapticVars>>

\* AudioMode's mount effect: startForestAmbience() on its own useAudio instance.
AudioModeStartForestAmbience ==
  /\ engine.mounted
  /\ accessibilityMode = "audio-first"
  /\ ~hasStartedAmbience
  /\ Call("mode", "startForestAmbience", 0)
  /\ UNCHANGED <<sessionVars, dispatchVars, announceVars, decoyVars, mapperVars, hapticVars>>

\* stopForestAmbience: pause the ambience element the ref holds, if it plays.
stopForestAmbience(a) ==
  IF a.forests # <<>> /\ ~a.forests[Len(a.forests)].paused
    THEN [a EXCEPT !.forests[Len(a.forests)].paused = TRUE]
    ELSE a

\* The creature is found while AudioMode is mounted: isFound is a dependency of
\* its ambience effect, so the effect's cleanup runs stopForestAmbience() and
\* the effect, with hasStartedAmbience already set, starts nothing.
AudioModeIsFoundChange ==
  /\ accessibilityMode = "audio-first"
  /\ hasStartedAmbience
  /\ engine.mounted /\ ~engine.isFound
  /\ engine' = handleCreatureFound(engine)
  /\ audio' = [audio EXCEPT !["mode"] = stopForestAmbience(@)]
  /\ UNCHANGED <<level, accessibilityMode, visualModeDef, talkBackEnabled,
                 box, speech, staleFired, dispatchVars, announceVars, decoyVars, mapperVars, hapticVars,
                 audioPolicy, soundAsset, calls, nCalls, rejections>>

\* GameEngine's mount effect.
CallStartForestAmbience ==
  /\ engine.mounted
  /\ \A k \in CallIds : ~(calls[k].inst = "engine" /\ calls[k].fn = "startForestAmbience")
  /\ Call("engine", "startForestAmbience", 0)
  /\ UNCHANGED <<sessionVars, dispatchVars, announceVars, decoyVars, mapperVars, hapticVars>>

\* GameEngine's delayed one-shot target sound.
CallPlaySound ==
  /\ \A k \in CallIds : calls[k].fn # "playSound"
  /\ Call("engine", "playSound", 0)
  /\ UNCHANGED <<sessionVars, dispatchVars, announceVars, decoyVars, mapperVars, hapticVars>>

\* The resume() promise a call is parked at resolves.
ResumeResolve(k) ==
  /\ calls[k].pc \in {"awaitInit", "awaitResume"}
  /\ LET c == calls[k]
         a0 == [audio[c.inst] EXCEPT !.ctxs[c.ctx] = "running"]
     IN IF c.pc = "awaitInit"
          THEN Continue(c.inst, k, c.fn, c.prox, initializeAudioFinish(a0))
          ELSE /\ audio' = [audio EXCEPT ![c.inst] = startForestAmbiencePlay(a0)]
               /\ calls' = [calls EXCEPT ![k] = DoneCall(c)]
               /\ UNCHANGED rejections
  /\ UNCHANGED <<sessionVars, dispatchVars, announceVars, decoyVars, mapperVars, hapticVars, audioPolicy, soundAsset, nCalls>>

\* The play() promise a call is parked at resolves: playback has started.
PlayResolve(k) ==
  /\ calls[k].pc = "awaitPlay"
  /\ soundAsset = "loads"
  /\ LET c == calls[k]
         a == audio[c.inst]
     IN /\ audio' = [audio EXCEPT ![c.inst] =
                       [a EXCEPT !.els[c.el].pending = 0,
                                 !.els[c.el].volume =
                                    IF c.fn = "playCreatureSoundWithProximity"
                                      THEN Volume(c.prox) ELSE @]]
        /\ calls' = [calls EXCEPT ![k] = DoneCall(c)]
  /\ UNCHANGED <<sessionVars, dispatchVars, announceVars, decoyVars, mapperVars, hapticVars, audioPolicy, soundAsset, nCalls, rejections>>

\* The unmount cleanup of one useAudio instance: every registered loop that
\* plays is paused, and the registry is cleared.
useAudioCleanup(a) ==
  IF a.active # 0 /\ ~a.els[a.active].paused
    THEN stopActive(a)
    ELSE [a EXCEPT !.active = 0]

\* The session is torn down: GameEngine, ProximityEngine and the mode
\* component unmount.  Each useAudio instance runs its cleanup, and AudioMode's
\* ambience effect runs its own (stopForestAmbience).  Calls parked at an
\* await go on afterwards; the pause rejects a play() still pending.
AudioTeardown ==
  /\ engine.mounted
  /\ engine' = [engine EXCEPT !.mounted = FALSE]
  /\ audio' = [i \in Instances |->
                 IF i = "mode" /\ accessibilityMode = "audio-first"
                   THEN stopForestAmbience(useAudioCleanup(audio[i]))
                   ELSE useAudioCleanup(audio[i])]
  /\ calls' = [k \in CallIds |->
                 IF /\ calls[k].pc = "awaitPlay"
                    /\ audio[calls[k].inst].active = calls[k].el
                    /\ ~audio[calls[k].inst].els[calls[k].el].paused
                    /\ audio[calls[k].inst].els[calls[k].el].pending = k
                   THEN DoneCall(calls[k])
                   ELSE calls[k]]
  /\ UNCHANGED <<level, accessibilityMode, visualModeDef, talkBackEnabled,
                 box, speech, staleFired, dispatchVars, announceVars, decoyVars,
                 mapperVars, hapticVars, audioPolicy, soundAsset, nCalls, rejections>>

AudioInit ==
  /\ level = 1
  /\ accessibilityMode \in {"audio-first", "multi-sensory"}
  /\ visualModeDef = 1
  /\ SessionIdle
  /\ DispatchRest
  /\ AnnounceRest /\ DecoyRest /\ MapperRest /\ HapticRest
  /\ audioPolicy \in {"unsupported", "running", "suspended"}
  /\ soundAsset = "loads"
  /\ audio = [i \in Instances |-> FreshAudio]
  /\ calls = [k \in CallIds |-> IdleCall]
  /\ nCalls = 0
  /\ rejections = {}

AudioNext ==
  \/ \E i \in {"proximity", "mode"}, prox \in ProximityInputs :
        CallPlayCreatureSoundWithProximity(i, prox)
  \/ CallStartForestAmbience
  \/ AudioModeStartForestAmbience
  \/ AudioModeIsFoundChange
  \/ CallPlaySound
  \/ \E k \in CallIds : ResumeResolve(k)
  \/ \E k \in CallIds : PlayResolve(k)
  \/ AudioTeardown

SpecAudio == AudioInit /\ [][AudioNext]_vars

(***************************************************************************)
(* One useAudio instance and its proximity loop, with a sound file that    *)
(* may fail to load.  A failed load sets the element's error attribute and *)
(* rejects the play() promise pending on it; it leaves paused as it is.    *)
(***************************************************************************)
LoopProximities == ProximityInputs \cup {1000}

\* The load of element e of instance i fails: audio.onerror logs a warning
\* (or, for an element made on demand, nothing listens), and a start parked at
\* `await audio.play()` lands in its catch.
SoundLoadError(i, e) ==
  /\ soundAsset = "missing"
  /\ e \in 1..Len(audio[i].els)
  /\ ~audio[i].els[e].error
  /\ LET k == audio[i].els[e].pending
     IN /\ audio' = [audio EXCEPT ![i].els[e].error = TRUE,
                                  ![i].els[e].pending = 0]
        /\ calls' = [c \in CallIds |->
                       IF c = k /\ calls[c].pc = "awaitPlay"
                         THEN DoneCall(calls[c]) ELSE calls[c]]
  /\ UNCHANGED <<sessionVars, dispatchVars, announceVars, decoyVars, mapperVars, hapticVars,
                 audioPolicy, soundAsset, nCalls, rejections>>

\* play() on an element whose load has failed: the promise it returned
\* rejects and the call's catch logs the error.
PlayReject(k) ==
  /\ calls[k].pc = "awaitPlay"
  /\ audio[calls[k].inst].els[calls[k].el].error
  /\ audio' = [audio EXCEPT ![calls[k].inst].els[calls[k].el].pending =
                              IF @ = k THEN 0 ELSE @]
  /\ calls' = [calls EXCEPT ![k] = DoneCall(calls[k])]
  /\ UNCHANGED <<sessionVars, dispatchVars, announceVars, decoyVars, mapperVars, hapticVars,
                 audioPolicy, soundAsset, nCalls, rejections>>

\* ProximityEngine's position update with any proximity.
LoopCall(prox) ==
  /\ Call("proximity", "playCreatureSoundWithProximity", prox)
  /\ UNCHANGED <<sessionVars, dispatchVars, announceVars, decoyVars, mapperVars, hapticVars>>

LoopInit ==
  /\ level = 1
  /\ accessibilityMode = "multi-sensory"
  /\ visualModeDef = 1
  /\ SessionIdle
  /\ DispatchRest
  /\ AnnounceRest /\ DecoyRest /\ MapperRest /\ HapticRest
  /\ audioPolicy \in {"running", "suspended"}
  /\ soundAsset \in {"loads", "missing"}
  /\ audio = [i \in Instances |-> FreshAudio]
  /\ calls = [k \in CallIds |-> IdleCall]
  /\ nCalls = 0
  /\ rejections = {}

LoopNext ==
  \/ \E prox \in LoopProximities : LoopCall(prox)
  \/ \E k \in CallIds : ResumeResolve(k)
  \/ \E k \in CallIds : PlayResolve(k)
  \/ \E k \in CallIds : PlayReject(k)
  \/ \E e \in 1..MaxCalls : SoundLoadError("proximity", e)

SpecLoop == LoopInit /\ [][LoopNext]_vars

(***************************************************************************)
(* The feedback dispatchers.  A position update re-renders GameEngine and  *)
(* runs, in render order, ProximityEngine's effect and the active mode     *)
(* component's effect.  Each component has its own refs; the commands of   *)
(* all of them reach the same platform channels.                           *)
(***************************************************************************)
\* Math.pow(p, e) for p and e in thousandths, by square roots: e is rounded to
\* 1/256 and every product to 1/1000.  Exact at p = 0 and p = 1.
RECURSIVE PowBits(_, _, _, _)
PowBits(root, e, weight, acc) ==
  IF weight = 0 THEN acc
  ELSE LET r == ISqrt(root * 1000)
       IN IF e >= weight
            THEN PowBits(r, e - weight, weight \div 2, (acc * r) \div 1000)
            ELSE PowBits(r, e, weight \div 2, acc)

Pow(p, e) == PowBits(p, (e * 256 + 500) \div 1000, 128, 1000)

Distance(p, q) == ISqrt(DistSq(p, q))

\* 1 - (distance / radius), without the clamp at 0.
ProximityUnclamped(distance, radius) == 1000 - (distance * 1000) \div radius

\* Math.max(0, 1 - (distance / radius))
Proximity(distance, radius) == Max(0, 1000 - (distance * 1000) \div radius)

\* currentCreature.detectionRadius
detectionRadius == 100

\* Two decoys of the generated list, as close as the generator lets them be
\* (70 apart), with the largest radius and the level's least intensity.
decoy(d, l) ==
  [id |-> d, position |-> <<530 + 70 * d, 300>>, radius |-> 100,
   intensity |-> Min(200 + (l - 2) * 100, 500)]

decoys(l) == IF l = 1 THEN <<>> ELSE <<decoy(1, l), decoy(2, l)>>

\* navigator.vibrate / playTone / playCreatureSoundWithProximity is issued.
Emit(s, ch, t, ov) ==
  [s EXCEPT !.emitted[ch] = [count |-> Min(@.count + 1, 2), prev |-> @.last,
                             last |-> t, override |-> ov]]

(* ProximityEngine *)
levelRadiusMultiplier == <<25, 20, 16, 14, 12>>            \* in tenths
power == <<1000, 1000, 600, 400, 250>>
currentThreshold == <<80, 120, 180, 250, 350>>
difficultyDelay(l) == Max(150, 300 - ((l - 1) * 30))

\* The adjusted proximity of the cursor to the creaturePosition prop.
ProximityEngineProximityAt(cursor, target, l) ==
  LET distance == Distance(cursor, target)
      expandedRadius == (detectionRadius * levelRadiusMultiplier[l]) \div 10
      normalizedDistance == Min((distance * 1000) \div expandedRadius, 1000)
      proximityValue == Max(0, 1000 - normalizedDistance)
  IN IF l > 2 THEN Pow(proximityValue, power[l]) ELSE proximityValue

ProximityEngineProximity(cursor, l) ==
  ProximityEngineProximityAt(cursor, creaturePosition, l)

\* The effect, run whenever the cursor or the creaturePosition prop changes.
ProximityEngineEffectAt(s, cursor, target, t, l) ==
  LET adjustedProximity == ProximityEngineProximityAt(cursor, target, l)
      s1 == Emit(s, "audio", t, FALSE)
  IN IF adjustedProximity > currentThreshold[l]
          /\ t - s.refs.lastHapticTime > difficultyDelay(l)
       THEN [Emit(s1, "haptic", t, FALSE) EXCEPT !.refs.lastHapticTime = t]
       ELSE s1

ProximityEngineEffect(s, cursor, t, l) ==
  ProximityEngineEffectAt(s, cursor, creaturePosition, t, l)

(* MultiSensoryMode *)
multiSensoryRadiusMultiplier == <<20, 17, 14, 12, 10>>     \* in tenths
sensoryCurve == <<1000, 1000, 750, 600, 450>>
audioThreshold == <<50, 100, 150, 200, 250>>
hapticThreshold == <<100, 150, 250, 350, 450>>
audioDelay(l) == Max(300, 200 + (l * 50))
MultiSensoryDecoyInterval == 1200
MultiSensoryHapticInterval == 300

MultiSensoryProximity(cursor, l) ==
  LET distance == Distance(cursor, creaturePosition)
      expandedRadius == (detectionRadius * multiSensoryRadiusMultiplier[l]) \div 10
      proximityValue == Proximity(distance, expandedRadius)
  IN IF l > 2 THEN Pow(proximityValue, sensoryCurve[l]) ELSE proximityValue

\* The decoy haptic pulse.  MultiSensoryMode.tsx takes vibrate from useHaptics;
\* part_001 does not, and its vibrate is the file's
\* `function vibrate(arg0) { throw new Error('Function not implemented.') }`.
decoyVibrate(s, t, def) ==
  IF def = "part_001" THEN [s EXCEPT !.error = TRUE]
  ELSE Emit(s, "decoyHaptic", t, FALSE)

\* The body of decoys.forEach for one decoy.
multiSensoryDecoy(s, d, cursor, t, l, def) ==
  IF s.error THEN s
  ELSE
    LET decoyProximity == Proximity(Distance(cursor, d.position), d.radius)
        s1 == [s EXCEPT !.samples[d.id] = (decoyProximity * d.intensity) \div 1000]
    IN IF decoyProximity > 300
            /\ t - s.refs.lastDecoyFeedbackRef[d.id] > MultiSensoryDecoyInterval
         THEN LET s2 == IF l >= 3 THEN Emit(s1, "decoyAudio", t, FALSE) ELSE s1
                  s3 == IF l >= 4 /\ decoyProximity > 500
                          THEN decoyVibrate(s2, t, def) ELSE s2
              IN IF s3.error THEN s3
                 ELSE [s3 EXCEPT !.refs.lastDecoyFeedbackRef[d.id] = t]
         ELSE s1

RECURSIVE multiSensoryDecoys(_, _, _, _, _, _)
multiSensoryDecoys(s, ds, cursor, t, l, def) ==
  IF ds = <<>> THEN s
  ELSE multiSensoryDecoys(multiSensoryDecoy(s, Head(ds), cursor, t, l, def),
                          Tail(ds), cursor, t, l, def)

\* The creature's audio and haptic feedback of the effect.
multiSensoryFeedback(s, proximityValue, t, l) ==
  IF proximityValue > 0
    THEN LET s1 == IF proximityValue > audioThreshold[l]
                        /\ t - s.refs.lastAudioTimeRef > audioDelay(l)
                     THEN [Emit(s, "audio", t, FALSE) EXCEPT !.refs.lastAudioTimeRef = t]
                     ELSE s
         IN IF proximityValue > hapticThreshold[l]
                 /\ t - s1.refs.lastHapticTimeRef > MultiSensoryHapticInterval
              THEN [Emit(s1, "haptic", t, FALSE) EXCEPT !.refs.lastHapticTimeRef = t]
              ELSE s1
    ELSE s

MultiSensoryEffect(s, cursor, t, l, def) ==
  LET proximityValue == MultiSensoryProximity(cursor, l)
      s1 == [s EXCEPT !.published.proximity = proximityValue,
                      !.samples = [d \in DecoyIds |-> 0]]
      s2 == multiSensoryDecoys(s1, decoys(l), cursor, t, l, def)
  IN IF s2.error THEN s2          \* the effect is left at the throw
     ELSE LET s3 == [s2 EXCEPT !.published.decoyProximities = s2.samples,
                               !.publishedSamples = TRUE]
              s4 == multiSensoryFeedback(s3, proximityValue, t, l)
          IN [s4 EXCEPT !.discoveryChecked = TRUE,
                        !.found = DistanceBelow(cursor, creaturePosition,
                                                autoDiscoveryThreshold(l))]

(* AudioMode *)
audioRadiusMultiplier == <<22, 18, 15, 13, 11>>            \* in tenths
audioPower == <<1000, 1000, 700, 500, 350>>
audioUpdateDelay == <<200, 350, 500, 800, 1200>>
minProximityForSound == <<50, 80, 120, 180, 250>>
AudioDecoyInterval == 1500
SignificantChange == 100

AudioModeProximity(cursor, l) ==
  LET distance == Distance(cursor, creaturePosition)
      expandedRadius == (detectionRadius * audioRadiusMultiplier[l]) \div 10
      proximity == Proximity(distance, expandedRadius)
  IN IF l > 2 THEN Pow(proximity, audioPower[l]) ELSE proximity

audioModeDecoy(s, d, cursor, t) ==
  LET decoyProximity == Proximity(Distance(cursor, d.position), d.radius)
  IN IF decoyProximity > 300
          /\ t - s.refs.lastDecoyPlayTimeRef[d.id] > AudioDecoyInterval
       THEN [Emit(s, "decoyAudio", t, FALSE) EXCEPT !.refs.lastDecoyPlayTimeRef[d.id] = t]
       ELSE s

RECURSIVE audioModeDecoys(_, _, _, _)
audioModeDecoys(s, ds, cursor, t) ==
  IF ds = <<>> THEN s
  ELSE audioModeDecoys(audioModeDecoy(s, Head(ds), cursor, t), Tail(ds), cursor, t)

\* A gate that lets a command through only after the update delay.
AudioModeEffectDelayOnly(s, cursor, t, l) ==
  LET adjustedProximity == AudioModeProximity(cursor, l)
      significant == Abs(adjustedProximity - s.refs.lastProximityRef) > SignificantChange
      s1 == IF adjustedProximity > minProximityForSound[l]
                 /\ t - s.refs.lastPlayTimeRef > audioUpdateDelay[l]
              THEN [Emit(s, "audio", t, significant)
                      EXCEPT !.refs.lastProximityRef = adjustedProximity,
                             !.refs.lastPlayTimeRef = t,
                             !.audioGap = t - s.refs.lastPlayTimeRef]
              ELSE s
      s2 == IF l >= 2 THEN audioModeDecoys(s1, decoys(l), cursor, t) ELSE s1
  IN [s2 EXCEPT !.discoveryChecked = TRUE,
                !.found = DistanceBelow(cursor, creaturePosition,
                                        autoDiscoveryThreshold(l))]

AudioModeEffect(s, cursor, t, l) ==
  LET adjustedProximity == AudioModeProximity(cursor, l)
      significant == Abs(adjustedProximity - s.refs.lastProximityRef) > SignificantChange
      s1 == IF adjustedProximity > minProximityForSound[l]
                 /\ (significant \/ t - s.refs.lastPlayTimeRef > audioUpdateDelay[l])
              THEN [Emit(s, "audio", t, significant)
                      EXCEPT !.refs.lastProximityRef = adjustedProximity,
                             !.refs.lastPlayTimeRef = t,
                             !.audioGap = t - s.refs.lastPlayTimeRef]
              ELSE s
      s2 == IF l >= 2 THEN audioModeDecoys(s1, decoys(l), cursor, t) ELSE s1
  IN [s2 EXCEPT !.discoveryChecked = TRUE,
                !.found = DistanceBelow(cursor, creaturePosition,
                                        autoDiscoveryThreshold(l))]

(* VisualMode *)
levelAdjustment == <<1000, 850, 700, 500, 350>>

\* The first definition of VisualMode.tsx: level-adjusted, with the exponent
\* 1.0 + (level - 2) * 0.25 above level 2.
VisualModeProximity(cursor, l) ==
  LET distance == Distance(cursor, creaturePosition)
      expandedRadius == (detectionRadius * (IF l = 1 THEN 15 ELSE 12)) \div 10
      linear == Proximity(distance, expandedRadius)
      proximityValue == IF l > 2 THEN (linear * Pow(linear, (l - 2) * 250)) \div 1000
                                 ELSE linear
  IN (proximityValue * levelAdjustment[l]) \div 1000

\* VisualMode issues no audio and no haptic command: it publishes the samples
\* its rendering uses and evaluates its discovery threshold.
VisualModeEffect(s, cursor, t, l, vdef) ==
  LET s1 == IF vdef = 1
              THEN [s EXCEPT !.published.proximity = VisualModeProximity(cursor, l),
                             !.published.decoyProximities =
                                [d \in DecoyIds |->
                                   IF d <= Len(decoys(l))
                                     THEN (Proximity(Distance(cursor, decoys(l)[d].position),
                                                     decoys(l)[d].radius)
                                           * decoys(l)[d].intensity) \div 1000
                                     ELSE 0]]
              ELSE [s EXCEPT !.published.proximity =
                               Proximity(Distance(cursor, creaturePosition), detectionRadius)]
  IN [s1 EXCEPT !.publishedSamples = TRUE,
                !.discoveryChecked = TRUE,
                !.found = DiscoveryCheck("visual-first", vdef, l, cursor)]

DispatchCursors == {<<100, 100>>, <<405, 302>>, <<430, 300>>, <<480, 300>>, <<635, 300>>}
Steps == {100, 500, 1600}

\* One position update: cursor is the new position, dt the time since the last.
Dispatch(cursor, dt, mode) ==
  /\ engine.mounted /\ ~engine.isFound /\ ~tick.error
  /\ nTicks < MaxTicks
  /\ nTicks' = nTicks + 1
  /\ now' = now + dt
  /\ LET t == now + dt
         e1 == [engine EXCEPT !.cursorPosition = cursor]
         s0 == [refs |-> refs, emitted |-> emitted, published |-> published,
                samples |-> [d \in DecoyIds |-> 0], error |-> FALSE,
                publishedSamples |-> FALSE, discoveryChecked |-> FALSE,
                found |-> FALSE, audioGap |-> 0]
         s1 == ProximityEngineEffect(s0, cursor, t, level)
     IN \E s2 \in {CASE mode = "multi-sensory" ->
                          MultiSensoryEffect(s1, cursor, t, level, multiSensoryDef)
                     [] mode = "audio-first" -> AudioModeEffect(s1, cursor, t, level)
                     [] mode = "visual-first" ->
                          VisualModeEffect(s1, cursor, t, level, visualModeDef)} :
        /\ refs' = s2.refs
        /\ emitted' = s2.emitted
        /\ published' = s2.published
        /\ tick' = [ran |-> TRUE, level |-> level, error |-> s2.error,
                    published |-> s2.publishedSamples,
                    discoveryChecked |-> s2.discoveryChecked,
                    audioGap |-> s2.audioGap]
        /\ engine' = IF s2.found THEN handleCreatureFound(e1) ELSE e1
        /\ speech' = IF s2.found THEN handleCreatureFoundAnnounce(e1, speech)
                                 ELSE speech
  /\ UNCHANGED <<level, accessibilityMode, visualModeDef, talkBackEnabled,
                 box, staleFired, audioVars, announceVars, decoyVars, mapperVars, hapticVars, multiSensoryDef>>

MultiSensoryTick(cursor, dt) ==
  /\ accessibilityMode = "multi-sensory"
  /\ Dispatch(cursor, dt, "multi-sensory")

AudioModeTick(cursor, dt) ==
  /\ accessibilityMode = "audio-first"
  /\ Dispatch(cursor, dt, "audio-first")

VisualModeTick(cursor, dt) ==
  /\ accessibilityMode = "visual-first"
  /\ Dispatch(cursor, dt, "visual-first")

\* The level prop changes while the same GameEngine stays mounted: no state
\* hook and no ref of GameEngine or of its children is re-initialised.
LevelStartInPlace ==
  /\ engine.mounted /\ engine.isFound
  /\ level < 5
  /\ level' = level + 1
  /\ UNCHANGED <<accessibilityMode, visualModeDef, talkBackEnabled, engine, box,
                 speech, staleFired, audioVars, announceVars, decoyVars, mapperVars, hapticVars, multiSensoryDef, now, nTicks,
                 refs, published, emitted, tick>>

\* The next level starts after a discovery: the session is re-created, that is,
\* GameEngine and its children are mounted anew with the next level.
LevelStart ==
  /\ engine.mounted /\ engine.isFound
  /\ level < 5
  /\ level' = level + 1
  /\ engine' = FreshEngine
  /\ refs' = FreshRefs
  /\ published' = FreshPublished
  /\ emitted' = [c \in Channels |-> NoCommand]
  /\ tick' = NoTick
  /\ UNCHANGED <<accessibilityMode, visualModeDef, talkBackEnabled, box, speech,
                 staleFired, audioVars, announceVars, decoyVars, mapperVars, hapticVars, multiSensoryDef, now, nTicks>>

DispatchInit ==
  /\ level \in Levels
  /\ accessibilityMode \in Modes
  /\ visualModeDef \in {1, 2}
  /\ accessibilityMode # "visual-first" => visualModeDef = 1
  /\ SessionIdle
  /\ AudioRest
  /\ AnnounceRest /\ DecoyRest /\ MapperRest /\ HapticRest
  /\ multiSensoryDef \in {"MultiSensoryMode.tsx", "part_001"}
  /\ accessibilityMode # "multi-sensory" => multiSensoryDef = "MultiSensoryMode.tsx"
  /\ now = StartTime
  /\ nTicks = 0
  /\ refs = FreshRefs
  /\ published = FreshPublished
  /\ emitted = [c \in Channels |-> NoCommand]
  /\ tick = NoTick

DispatchNext ==
  \/ \E cursor \in DispatchCursors, dt \in Steps : MultiSensoryTick(cursor, dt)
  \/ \E cursor \in DispatchCursors, dt \in Steps : AudioModeTick(cursor, dt)
  \/ \E cursor \in DispatchCursors, dt \in Steps : VisualModeTick(cursor, dt)
  \/ LevelStart

SpecDispatch == DispatchInit /\ [][DispatchNext]_vars

(***************************************************************************)
(* Claims about the dispatchers (checked under SpecDispatch).              *)
(***************************************************************************)
\* The least interval configured for a channel by the components that drive it
\* in the active mode (ProximityEngine configures none for the audio loop).
MinInterval(ch) ==
  CASE ch = "audio" -> IF accessibilityMode = "multi-sensory"
                         THEN audioDelay(level) ELSE audioUpdateDelay[level]
    [] ch = "haptic" -> IF accessibilityMode = "multi-sensory"
                          THEN Min(difficultyDelay(level), MultiSensoryHapticInterval)
                          ELSE difficultyDelay(level)
    [] ch \in {"decoyAudio", "decoyHaptic"} ->
                        IF accessibilityMode = "multi-sensory"
                          THEN MultiSensoryDecoyInterval ELSE AudioDecoyInterval

\* C8: on every channel the last two commands are more than the channel's
\* minimum interval apart, unless the later one is a primary-audio command
\* emitted under the significant-change override.
C8_MinIntervalPerChannel ==
  \A ch \in Channels :
    emitted[ch].count >= 2 =>
      \/ emitted[ch].last - emitted[ch].prev > MinInterval(ch)
      \/ ch = "audio" /\ emitted[ch].override

\* C9: a Multi-Sensory position update never raises: it publishes the
\* proximity samples and reaches the discovery check.
C9_TickCompletes ==
  (tick.ran /\ accessibilityMode = "multi-sensory") =>
    (~tick.error /\ tick.published /\ tick.discoveryChecked)

\* C13: in visual-first mode a position update issues no haptic pulse and no
\* audio-loop command that starts the loop or updates its volume (one whose
\* proximity is inside the radius).
C13_VisualModeSilent ==
  [][(accessibilityMode = "visual-first" /\ nTicks' # nTicks) =>
       /\ emitted'["haptic"] = emitted["haptic"]
       /\ emitted'["audio"] # emitted["audio"] =>
            ~isInRadius(ProximityEngineProximity(engine'.cursorPosition, level))]_vars

LoopOwners == {"proximity", "mode"}

LoopCalls(i) ==
  {k \in 1..nCalls : calls[k].inst = i /\ calls[k].fn = "playCreatureSoundWithProximity"}

LastLoopCall(i) == CHOOSE k \in LoopCalls(i) : \A j \in LoopCalls(i) : j <= k

Settled(i) == \A k \in LoopCalls(i) : calls[k].pc = "done"

Playing(i) == {e \in 1..Len(audio[i].els) : ~audio[i].els[e].paused}

\* C2: once every call of an instance has returned and the latest request was
\* a stop (proximity at or below the radius), no loop of that instance plays,
\* whatever the order in which the stop and the earlier start resolved.
C2_StopWinsOverPendingStart ==
  \A i \in LoopOwners :
    (LoopCalls(i) # {} /\ Settled(i) /\ ~isInRadius(calls[LastLoopCall(i)].prox))
      => Playing(i) = {}

\* C3: counted over every caller's audio manager, at most one loop element for
\* the creature's sound key is playing.
C3_OneLoopPerKey ==
  Cardinality({<<i, e>> \in LoopOwners \X (1..(2 * MaxCalls)) : e \in Playing(i)}) <= 1

\* C10: when the audio context cannot be constructed, no audio entry point
\* lets the error escape to its caller.
C10_InitFailureContained == audioPolicy = "unsupported" => rejections = {}

\* C11: however many calls of initializeAudio overlap, an audio manager ends
\* with one audio context, one preloaded element for the sound file and one
\* ambient element.
C11_InitializeOnce ==
  \A i \in Instances :
    /\ Len(audio[i].ctxs) <= 1
    /\ Len(audio[i].els) <= 1
    /\ Len(audio[i].forests) <= 1

AmbientPlaying ==
  {<<i, f>> \in Instances \X (1..MaxCalls) :
     f \in DOMAIN audio[i].forests /\ ~audio[i].forests[f].paused}

\* C12: at most one ambient element plays, its volume stays the one it was
\* created with, and while the session is mounted no playing ambient element
\* is stopped.
C12_AmbienceLifecycle ==
  /\ [](/\ Cardinality(AmbientPlaying) <= 1
        /\ \A i \in Instances : \A f \in DOMAIN audio[i].forests :
             audio[i].forests[f].volume = NewForest.volume)
  /\ [][engine'.mounted =>
          \A i \in Instances : \A f \in DOMAIN audio[i].forests :
            ~audio[i].forests[f].paused => ~audio'[i].forests[f].paused]_vars

(***************************************************************************)
(* Claims about the discovery session (checked under Spec).                *)
(***************************************************************************)
Phase ==
  IF ~engine.isFound THEN "Searching"
  ELSE IF engine.levelCompleteCalls > 0 THEN "Complete"
  ELSE IF box = FreshBox THEN "Found"          \* the fact box never mounted
  ELSE IF box.isNarrating THEN "Narrating"
  ELSE "Counting"

PhaseRank ==
  CASE Phase = "Searching" -> 0
    [] Phase = "Found" -> 1
    [] Phase = "Narrating" -> 2
    [] Phase = "Counting" -> 3
    [] Phase = "Complete" -> 4

\* C1: in one discovery session the completion signal onLevelComplete is
\* invoked exactly once: once the session has completed (by countdown expiry
\* or by the close action, in any interleaving) the number of invocations is 1.
C1_CompletionExactlyOnce ==
  (box.completedRef \/ engine.levelCompleteCalls > 0)
    => engine.levelCompleteCalls = 1

\* C4: the session starts in Searching, its phase only moves forward along
\* Searching, Found, Narrating, Counting, Complete, and after Complete the
\* discovery state (isFound, isNarrating, countdown) no longer changes.
C4_ForwardOnly ==
  /\ Phase = "Searching"
  /\ [][/\ PhaseRank' >= PhaseRank
        /\ Phase = "Complete" =>
             /\ engine'.isFound = engine.isFound
             /\ box'.isNarrating = box.isNarrating
             /\ box'.countdown = box.countdown]_vars

\* C4 witness: a session that completed by countdown expiry after narration.
C4_Witness ==
  Phase = "Complete" /\ box.hasSpoken /\ ~box.isNarrating /\ box.countdown = 0

\* C5: while Searching, a position update moves the session to Found exactly
\* when its distance to the target is below max(5, 20 - 3*level), in every
\* accessibility mode.
C5_AutoDiscoveryAtThreshold ==
  [][(~engine.isFound /\ engine'.cursorPosition # engine.cursorPosition)
       => (engine'.isFound <=>
             DistanceBelow(engine'.cursorPosition, creaturePosition,
                           autoDiscoveryThreshold(level)))]_vars

\* C6: once the fact box is unmounted (explicit close, early exit, teardown)
\* neither its narration timer nor its countdown interval is pending, and
\* neither has fired since the unmount.
C6_BoxTimersCancelled ==
  ~box.mounted =>
    /\ box.speechTimer # "live"
    /\ box.countdownInterval # "live"
    /\ box.orphanTimers = 0
    /\ \A t \in staleFired : t[1] \notin {"narration", "countdown"}

\* C6 witness: the box was closed while its narration timer was pending.
C6_Witness ==
  ~box.mounted /\ box.isNarrating /\ box.speechTimer = "dead"

\* C7: after session teardown no timer acquired by the session fires,
\* the delayed target sound and the announcer's memory-clear timer included.
C7_NoTimerAfterTeardown ==
  \A t \in staleFired : t[2] # "session"

\* C15: while the fact box is shown, still narrating and not closed, the timer
\* that starts the countdown is pending, whatever re-renders with new callback
\* props came before: the countdown can always still start.
C15_CountdownStillStarts ==
  (box.mounted /\ box.isNarrating /\ ~box.completedRef) =>
    box.speechTimer = "live"

\* C16: once Counting has started, every step of a shown fact box leaves the
\* displayed countdown where it is or takes it down by one, never below zero
\* and never back up, and it reaches zero only with the completion recorded.
C16_CountdownDescends ==
  [][(box.mounted /\ box'.mounted /\ ~box.isNarrating) =>
       /\ box'.countdown \in {box.countdown, box.countdown - 1}
       /\ box'.countdown >= 0
       /\ box'.countdown = 0 => box'.completedRef]_vars

(***************************************************************************)
(* The announcers under arbitrary calls: the two useTalkBack instances of  *)
(* a session (GameEngine's and CreatureFactBox's) share the browser's one  *)
(* speech queue.  GameEngine calls speak at both priorities, the fact box  *)
(* only at the default one.                                                *)
(***************************************************************************)
Priorities(a) == IF a = "engine" THEN {"polite", "assertive"} ELSE {"polite"}

SpeakCall(a, text, priority) ==
  /\ said.n < MaxSpeaks
  /\ speech' = speak(speech, a, text, priority, talkBackEnabled)
  /\ said' = [n |-> said.n + 1, owner |-> a, text |-> text,
              priority |-> priority,
              lastBefore |-> speech.lastSpokenText[a],
              inFlightBefore |-> Len(speech.queue),
              handedBefore |-> speech.handed,
              afterGrace |-> said.ended[a].elapsed /\ said.ended[a].text = text,
              ended |-> [said.ended EXCEPT ![a] = NoneEnded]]
  /\ UNCHANGED <<level, accessibilityMode, visualModeDef, talkBackEnabled,
                 engine, box, staleFired, audioVars, dispatchVars, decoyVars, mapperVars, hapticVars>>

SpeechInit ==
  /\ level = 1
  /\ accessibilityMode = "multi-sensory"
  /\ visualModeDef = 1
  /\ talkBackEnabled \in BOOLEAN
  /\ engine = FreshEngine
  /\ box = [FreshBox EXCEPT !.mounted = TRUE]
  /\ speech = speak(NoSpeech, "engine", "intro", "polite", talkBackEnabled)
  /\ staleFired = {}
  /\ AudioRest
  /\ DispatchRest
  /\ AnnounceRest /\ DecoyRest /\ MapperRest /\ HapticRest

\* The utterance at the head of the queue ends.
SpeechUtteranceEnd ==
  /\ speech.queue # <<>>
  /\ speech' = onend(speech)
  /\ said' = [said EXCEPT !.ended[Head(speech.queue).owner] =
                 [text |-> Head(speech.queue).text,
                  ahead |-> speech.clearTimers[Head(speech.queue).owner],
                  elapsed |-> FALSE]]
  /\ UNCHANGED <<level, accessibilityMode, visualModeDef, talkBackEnabled,
                 engine, box, staleFired, audioVars, dispatchVars, decoyVars, mapperVars, hapticVars>>

\* The oldest pending memory-clear timeout of an announcer fires (the
\* timeouts all have the same delay, so they fire in the order they were armed).
SpeechMemoryClearFire(a) ==
  /\ speech.clearTimers[a] > 0
  /\ speech' = memoryClear(speech, a)
  /\ said' = [said EXCEPT !.ended[a] =
                 IF @.text = "" \/ @.elapsed THEN @
                 ELSE IF @.ahead = 0 THEN [@ EXCEPT !.elapsed = TRUE]
                 ELSE [@ EXCEPT !.ahead = @ - 1]]
  /\ UNCHANGED <<level, accessibilityMode, visualModeDef, talkBackEnabled,
                 engine, box, staleFired, audioVars, dispatchVars, decoyVars, mapperVars, hapticVars>>

SpeechNext ==
  \/ \E a \in Announcers : \E text \in Texts \ {""} : \E priority \in Priorities(a) :
       SpeakCall(a, text, priority)
  \/ SpeechUtteranceEnd
  \/ \E a \in Announcers : SpeechMemoryClearFire(a)

SpecSpeech == SpeechInit /\ [][SpeechNext]_vars

(***************************************************************************)
(* Claims about the announcers.                                            *)
(***************************************************************************)

\* C17: a speak call at the default priority whose text is the announcer's
\* last spoken text (the case of speak(X) immediately followed by speak(X))
\* hands nothing to the speech primitive and changes no announcer state.
C17_RepeatSuppressed ==
  [][(said'.n # said.n /\ said'.priority = "polite"
        /\ speech.lastSpokenText[said'.owner] = said'.text)
       => speech' = speech]_vars

\* The latest call repeated the announcer's last text at the default priority
\* while that text's utterance was still queued, and nothing was handed.
C17_Witness ==
  /\ said.n > 0 /\ said.priority = "polite"
  /\ said.lastBefore = said.text
  /\ said.inFlightBefore > 0
  /\ speech.handed = said.handedBefore
  /\ speech.handed = 1

\* C18: an assertive speak call made while an utterance is in flight leaves
\* the new utterance alone in the speech queue (the earlier ones are cancelled
\* before it is handed over), also when its text is the last spoken text.
C18_UrgentCancels ==
  [][(said'.n # said.n /\ said'.priority = "assertive" /\ speech.queue # <<>>)
       => /\ speech'.queue = <<[owner |-> said'.owner, text |-> said'.text]>>
          /\ speech'.handed = speech.handed + 1]_vars

\* The latest call was assertive, repeated the last spoken text while an
\* utterance was in flight, and its utterance is the only one queued.
C18_Witness ==
  /\ said.n > 0 /\ said.priority = "assertive"
  /\ said.lastBefore = said.text
  /\ said.inFlightBefore > 0
  /\ speech.handed = said.handedBefore + 1
  /\ speech.queue = <<[owner |-> said.owner, text |-> said.text]>>

(***************************************************************************)
(* The decoy generator (the decoys useMemo of GameEngine), one random      *)
(* sample per step.                                                        *)
(***************************************************************************)
AttemptBudget == 20
DecoySeparation == 70

\* The counts of the comments beside the table ("7-10 decoys"): one fewer at level 4.
decoyCountLow(l) ==
  CASE l = 2 -> 2
    [] l = 3 -> 4
    [] l = 4 -> 7
    [] l = 5 -> 12
    [] OTHER -> 0

decoyCount(l) ==
  CASE l = 2 -> 2
    [] l = 3 -> 4
    [] l = 4 -> 8
    [] l = 5 -> 12
    [] OTHER -> 0

minDistFromCreature(l) == IF l <= 3 THEN 150 ELSE 100

\* The points 50 + Math.random() * (size - 100) delivers in an 800 x 600 arena.
RandomPoints == {<<200, 300>>, <<600, 300>>}

\* Target positions: on a sample point, 120 from one, and far from both.
TargetPositions == {<<200, 300>>, <<320, 300>>, <<400, 100>>}

\* The tests of one attempt: far enough from the target, then from every
\* decoy already in the list.
ValidPlacement(p, l, target, earlier) ==
  /\ ~DistanceBelow(p, target, minDistFromCreature(l))
  /\ \A k \in 1..Len(earlier) :
       ~DistanceBelow(p, earlier[k].position, DecoySeparation)

\* One pass of the attempt loop with the sample p; the decoy is pushed when
\* the loop ends, with the last sample, whether or not that sample was valid.
GenerateAttempt(p) ==
  /\ Len(result) < decoyCount(level)
  /\ IF ValidPlacement(p, level, creaturePos, result)
          \/ attempts + 1 >= AttemptBudget
       THEN /\ result' = Append(result, [id |-> Len(result), position |-> p])
            /\ attempts' = 0
       ELSE /\ attempts' = attempts + 1
            /\ UNCHANGED result
  /\ UNCHANGED <<sessionVars, audioVars, dispatchVars, announceVars, mapperVars, hapticVars,
                 creaturePos, gameAreaSize, designPosition>>

DecoysInit ==
  /\ level \in Levels
  /\ accessibilityMode = "multi-sensory"
  /\ visualModeDef = 1
  /\ SessionIdle
  /\ AudioRest
  /\ DispatchRest
  /\ AnnounceRest
  /\ MapperRest /\ HapticRest
  /\ gameAreaSize = <<800, 600>>
  /\ creaturePos \in TargetPositions
  /\ designPosition = creaturePos
  /\ attempts = 0
  /\ result = <<>>

DecoysNext == \E p \in RandomPoints : GenerateAttempt(p)

SpecDecoys == DecoysInit /\ [][DecoysNext]_vars

(***************************************************************************)
(* The game area: GameEngine measures it after mounting and on every       *)
(* window resize; the scaled target position and the decoys are memoized   *)
(* on it.                                                                  *)
(***************************************************************************)
\* The scaledCreaturePosition useMemo: the design position scaled to the game
\* area and kept 20 from the left and top edges, 80 from the right and bottom.
scaledCreaturePosition(pos, size) ==
  <<Max(20, Min((size[1] * pos[1]) \div 800, size[1] - 60 - 20)),
    Max(20, Min((size[2] * pos[2]) \div 600, size[2] - 60 - 20))>>

GameAreaSizes == {<<800, 600>>, <<400, 300>>, <<1200, 900>>, <<200, 150>>}
DesignPositions == {<<400, 300>>, <<200, 300>>, <<760, 560>>}

\* updateGameAreaSize: setGameAreaSize with the measured rectangle; the
\* re-render recomputes scaledCreaturePosition and generates the decoys anew.
\* ProximityEngine is rendered whether or not the creature is found, and
\* creaturePosition is a dependency of its effect: the effect runs again.
updateGameAreaSize(size, dt) ==
  /\ engine.mounted
  /\ size # gameAreaSize
  /\ nTicks < MaxTicks
  /\ nTicks' = nTicks + 1
  /\ now' = now + dt
  /\ gameAreaSize' = size
  /\ creaturePos' = scaledCreaturePosition(designPosition, size)
  /\ attempts' = 0
  /\ result' = <<>>
  /\ \E s1 \in {ProximityEngineEffectAt([refs |-> refs, emitted |-> emitted],
                                        engine.cursorPosition,
                                        scaledCreaturePosition(designPosition, size),
                                        now + dt, level)} :
        /\ refs' = s1.refs
        /\ emitted' = s1.emitted
  /\ UNCHANGED <<sessionVars, audioVars, multiSensoryDef, published, tick,
                 announceVars, mapperVars, hapticVars, designPosition>>

\* handleMouseMove: the cursor follows the pointer; ProximityEngine's effect
\* runs on the new position, and the mode component's effect tests the
\* discovery threshold (its own commands are the subject of SpecDispatch).
ArenaMouseMove(p, dt) ==
  /\ engine.mounted /\ ~engine.isFound
  /\ nTicks < MaxTicks
  /\ nTicks' = nTicks + 1
  /\ now' = now + dt
  /\ LET e1 == [engine EXCEPT !.cursorPosition = p]
         found == DistanceBelow(p, creaturePos, autoDiscoveryThreshold(level))
     IN /\ engine' = IF found THEN handleCreatureFound(e1) ELSE e1
        /\ speech' = IF found THEN handleCreatureFoundAnnounce(e1, speech)
                              ELSE speech
  /\ \E s1 \in {ProximityEngineEffectAt([refs |-> refs, emitted |-> emitted],
                                        p, creaturePos, now + dt, level)} :
        /\ refs' = s1.refs
        /\ emitted' = s1.emitted
  /\ UNCHANGED <<level, accessibilityMode, visualModeDef, talkBackEnabled, box,
                 staleFired, audioVars, multiSensoryDef, published, tick,
                 announceVars, mapperVars, hapticVars, decoyVars>>

ArenaInit ==
  /\ level \in Levels
  /\ accessibilityMode = "multi-sensory"
  /\ visualModeDef = 1
  /\ SessionIdle
  /\ AudioRest
  /\ DispatchRest
  /\ AnnounceRest
  /\ MapperRest /\ HapticRest
  /\ gameAreaSize = <<800, 600>>
  /\ designPosition \in DesignPositions
  /\ creaturePos = scaledCreaturePosition(designPosition, gameAreaSize)
  /\ attempts = 0
  /\ result = <<>>

ArenaNext ==
  \/ \E size \in GameAreaSizes, dt \in Steps : updateGameAreaSize(size, dt)
  \/ \E p \in CursorPositions, dt \in Steps : ArenaMouseMove(p, dt)

SpecArena == ArenaInit /\ [][ArenaNext]_vars

\* C29: the target position used for proximity and discovery is the same
\* after every event of the session as before it.
C29_TargetFixed == [][creaturePos' = creaturePos]_vars

(***************************************************************************)
(* Claims about the decoy generator.                                       *)
(***************************************************************************)
Flagged(placed) == "fallback" \in DOMAIN placed /\ placed.fallback

\* C19: every decoy in the list is at least minDistFromCreature(level) from
\* the target and at least 70 from the decoys placed before it, or else it
\* is flagged as a fallback placement.
C19_SeparatedOrFlagged ==
  \A k \in 1..Len(result) :
    \/ ValidPlacement(result[k].position, level, creaturePos, SubSeq(result, 1, k - 1))
    \/ Flagged(result[k])

\* C20: the level 5 list, once complete, has 12 decoys, each at least 100
\* from the target.
C20_LevelFiveDecoys ==
  (level = 5 /\ Len(result) = decoyCount(5))
    => /\ Len(result) = 12
       /\ \A k \in 1..Len(result) :
            ~DistanceBelow(result[k].position, creaturePos, 100)

Mappers == {"primary", "audio", "multi-sensory", "visual", "visual-fixed"}

\* detectionRadius * multiplier of each component.
ExpandedRadius(ch, l) ==
  CASE ch = "primary"       -> (detectionRadius * levelRadiusMultiplier[l]) \div 10
    [] ch = "audio"         -> (detectionRadius * audioRadiusMultiplier[l]) \div 10
    [] ch = "multi-sensory" -> (detectionRadius * multiSensoryRadiusMultiplier[l]) \div 10
    [] ch = "visual"        -> (detectionRadius * (IF l = 1 THEN 15 ELSE 12)) \div 10
    [] OTHER                -> detectionRadius

TargetProximity(ch, cursor, l) ==
  CASE ch = "primary"       -> ProximityEngineProximity(cursor, l)
    [] ch = "audio"         -> AudioModeProximity(cursor, l)
    [] ch = "multi-sensory" -> MultiSensoryProximity(cursor, l)
    [] ch = "visual"        -> VisualModeProximity(cursor, l)
    [] OTHER                -> Proximity(Distance(cursor, creaturePosition), detectionRadius)

\* Math.max(0, 1 - (decoyDistance / decoy.radius)) * decoy.intensity
DecoyProximitySample(distance, radius, intensity) ==
  (Proximity(distance, radius) * intensity) \div 1000

\* Cursor distances from the target: 0 to 260 in steps of 10, which holds
\* every component's expanded radius at every level.
MapperDistances == {10 * k : k \in 0..26}
\* The least and the greatest radius and intensity the generator gives a decoy.
DecoyDistances == {10 * k : k \in 0..11}
DecoyRadii == {40, 100}
DecoyIntensities == {200, 900}

\* The component's effect computes the target proximity for a cursor at
\* distance d from the target.
MapTarget(d) ==
  /\ sample.channel \in Mappers
  /\ sample' = [kind |-> "target", channel |-> sample.channel,
                distance |-> d,
                proximity |-> TargetProximity(sample.channel,
                                              <<creaturePosition[1] + d, creaturePosition[2]>>,
                                              level),
                prevKind |-> sample.kind,
                prevDistance |-> IF sample.kind = "target" THEN sample.distance ELSE 0,
                prevProximity |-> IF sample.kind = "target" THEN sample.proximity ELSE 0]
  /\ UNCHANGED <<sessionVars, audioVars, dispatchVars, announceVars, decoyVars,
                 hapticVars>>

\* decoys.forEach computes the sample of a decoy at distance d.
MapDecoy(d, radius, intensity) ==
  /\ sample.channel \in Mappers
  /\ level >= 2
  /\ sample' = [kind |-> "decoy", channel |-> sample.channel,
                distance |-> d,
                proximity |-> DecoyProximitySample(d, radius, intensity),
                prevKind |-> "none", prevDistance |-> 0, prevProximity |-> 0]
  /\ UNCHANGED <<sessionVars, audioVars, dispatchVars, announceVars, decoyVars,
                 hapticVars>>

MapperInit ==
  /\ level \in Levels
  /\ accessibilityMode = "multi-sensory"
  /\ visualModeDef = 1
  /\ SessionIdle
  /\ AudioRest
  /\ DispatchRest
  /\ AnnounceRest
  /\ DecoyRest
  /\ HapticRest
  /\ \E ch \in Mappers : sample = [NoSample EXCEPT !.channel = ch]

MapperNext ==
  \/ \E d \in MapperDistances : MapTarget(d)
  \/ \E d \in DecoyDistances : \E radius \in DecoyRadii :
       \E intensity \in DecoyIntensities : MapDecoy(d, radius, intensity)

SpecMapper == MapperInit /\ [][MapperNext]_vars

(***************************************************************************)
(* Claims about the mappers.                                               *)
(***************************************************************************)

\* C22: for every level and every mapper, the target proximity is 0 at a
\* distance of the expanded radius or more, and exactly 1 at distance 0.
C22_ProximityEndpoints ==
  sample.kind = "target" =>
    /\ sample.distance >= ExpandedRadius(sample.channel, level) => sample.proximity = 0
    /\ sample.distance = 0 => sample.proximity = 1000

\* C23: every target proximity and every decoy proximity sample lies in
\* [0, 1], and for a fixed level and mapper the target proximity at a greater
\* distance is never above the one at a smaller distance.
C23_ProximityRangeMonotone ==
  /\ sample.kind # "none" => (sample.proximity >= 0 /\ sample.proximity <= 1000)
  /\ (sample.kind = "target" /\ sample.prevKind = "target")
       => /\ sample.prevDistance <= sample.distance => sample.proximity <= sample.prevProximity
          /\ sample.prevDistance >= sample.distance => sample.proximity >= sample.prevProximity

\* Two successive target samples of the level 5 primary mapper, the later one
\* farther away and strictly lower, both strictly inside (0, 1).
C23_Witness ==
  /\ sample.kind = "target" /\ sample.prevKind = "target"
  /\ level = 5 /\ sample.channel = "primary"
  /\ sample.prevDistance < sample.distance
  /\ 0 < sample.proximity /\ sample.proximity < sample.prevProximity
  /\ sample.prevProximity < 1000

(***************************************************************************)
(* Claims about the decoy channels.                                        *)
(***************************************************************************)
\* Some decoy of the level has proximity above 0.3 for the cursor.
DecoyInReach(cursor, l) ==
  \E k \in 1..Len(decoys(l)) :
    Proximity(Distance(cursor, decoys(l)[k].position), decoys(l)[k].radius) > 300

\* C24: a position update emits a decoy tone only at level 3 or above and a
\* decoy haptic pulse only at level 4 or above, whatever the mode, and either
\* only when a decoy's proximity for the cursor is above 0.3.
C24_DecoyLevelGates ==
  [][nTicks' # nTicks =>
       /\ emitted'["decoyAudio"] # emitted["decoyAudio"]
            => (level >= 3 /\ DecoyInReach(engine'.cursorPosition, level))
       /\ emitted'["decoyHaptic"] # emitted["decoyHaptic"]
            => (level >= 4 /\ DecoyInReach(engine'.cursorPosition, level))]_vars

(***************************************************************************)
(* Claims about the proximity loop of one audio manager instance.          *)
(***************************************************************************)
\* The step is a new call of playCreatureSoundWithProximity whose body runs
\* in the same step (the instance is initialized).
LoopCallRuns ==
  /\ nCalls' = nCalls + 1
  /\ calls'[nCalls'].fn = "playCreatureSoundWithProximity"
  /\ audio[calls'[nCalls'].inst].isInitialized

\* The registry holds an element whose start was rejected: its load failed
\* and no play() promise is pending on it.
StartRejected(a) ==
  /\ a.active # 0
  /\ a.els[a.active].error
  /\ a.els[a.active].pending = 0

\* C25: no call of playCreatureSoundWithProximity rejects, and after a start
\* was rejected the next call for the key with proximity above 0.1 calls
\* play() again.
C25_RejectedStartRetried ==
  /\ [](\A r \in rejections : r[2] # "playCreatureSoundWithProximity")
  /\ [][(LoopCallRuns /\ StartRejected(audio[calls'[nCalls'].inst])
           /\ isInRadius(calls'[nCalls'].prox))
          => calls'[nCalls'].pc = "awaitPlay"]_vars

\* C26: once the load of the key's element has failed, no later call starts
\* playback of that key.
C26_FailedKeyNotRetried ==
  [][(LoopCallRuns
        /\ LET a == audio[calls'[nCalls'].inst]
           IN a.element # 0 /\ a.els[a.element].error)
       => calls'[nCalls'].pc # "awaitPlay"]_vars

\* C27: every element's volume is within [0.1, 1.0] at all times; a call that
\* starts the loop leaves its element at 0.1 while play() is pending, and
\* when play() resolves the volume becomes 0.1 + proximity^1.5 * 0.9 for the
\* proximity of the call that started it.
C27_VolumeInRange ==
  /\ [](\A i \in Instances : \A e \in 1..Len(audio[i].els) :
          audio[i].els[e].volume >= 100 /\ audio[i].els[e].volume <= 1000)
  /\ [][\A k \in CallIds :
          /\ (calls[k].pc # "awaitPlay" /\ calls'[k].pc = "awaitPlay")
               => audio'[calls'[k].inst].els[calls'[k].el].volume = 100
          /\ (calls[k].pc = "awaitPlay" /\ calls'[k].pc = "done"
                /\ ~audio'[calls[k].inst].els[calls[k].el].error
                /\ ~audio'[calls[k].inst].els[calls[k].el].paused)
               => audio'[calls[k].inst].els[calls[k].el].volume
                    = 100 + (((calls[k].prox * ISqrt(calls[k].prox * 1000)) \div 1000) * 900) \div 1000
         ]_vars

\* The loop was started at proximity 0.3 and a later call at proximity 1 has
\* raised the playing element to full volume.
C27_Witness ==
  /\ nCalls >= 2
  /\ calls[1].prox = 300 /\ calls[1].pc = "done"
  /\ calls[2].prox = 1000 /\ calls[2].pc = "done"
  /\ LET a == audio["proximity"]
     IN a.active # 0 /\ ~a.els[a.active].paused /\ a.els[a.active].volume = 1000

\* C28: when the body of a playCreatureSoundWithProximity call with proximity
\* of 0.1 or less runs while the registry holds no handle for the key, the
\* registry stays empty and every existing element keeps its paused flag, its
\* volume and its pending play() promise.
C28_StopWithoutHandle ==
  [][\A k \in CallIds :
       (/\ calls[k].pc \in {"idle", "awaitInit"}
        /\ calls'[k].pc \notin {"idle", "awaitInit"}
        /\ calls'[k].fn = "playCreatureSoundWithProximity"
        /\ ~(calls'[k].prox > 100)
        /\ audio[calls'[k].inst].active = 0)
       => LET a == audio[calls'[k].inst]
              b == audio'[calls'[k].inst]
          IN /\ b.active = 0
             /\ calls'[k].pc = "done"
             /\ \A e \in 1..Len(a.els) : b.els[e] = a.els[e]]_vars

\* Two stop requests have run on an initialized instance that never started
\* the loop: the second met existing elements and no handle.
C28_Witness ==
  /\ nCalls = 2
  /\ \A k \in {1, 2} : calls[k].pc = "done" /\ calls[k].prox = 50
                        /\ calls[k].fn = "playCreatureSoundWithProximity"
  /\ LET a == audio["proximity"]
     IN a.isInitialized /\ a.active = 0 /\ a.els # <<>>
        /\ \A e \in 1..Len(a.els) : a.els[e].paused /\ a.els[e].volume = 700

\* C30: when the latest position update gave ProximityEngine a proximity of
\* 0.1 or less (its call is the last one made: the mode component, whose
\* effect runs after it, called nothing) and every call has returned, no
\* loop element plays in any audio manager instance.
C30_NoLoopAfterLeaving ==
  (/\ nCalls > 0
   /\ \A k \in 1..nCalls : calls[k].pc = "done"
   /\ calls[nCalls].inst = "proximity"
   /\ calls[nCalls].fn = "playCreatureSoundWithProximity"
   /\ ~isInRadius(calls[nCalls].prox))
    => \A i \in LoopOwners : Playing(i) = {}

(***************************************************************************)
(* Claims about the Found transition (checked under Spec).                 *)
(***************************************************************************)
\* C31: the entry actions of the Found transition (the one-shot target sound
\* is scheduled, the fact is chosen, the urgent announcement is made) run at
\* most once per session, also when two discoveries are handled before the
\* found state has been re-rendered.
C31_FoundEntryOnce ==
  FoundEntries(engine) <= 1

(***************************************************************************)
(* Claims about the commands after discovery (checked under SpecArena).    *)
(***************************************************************************)
\* C32: once the session is Found no further proximity-driven command is
\* issued: no later event, arena resize included, issues a loop start or
\* volume update, a haptic pulse or a decoy tone.
C32_SilentAfterFound ==
  [][engine.isFound => emitted' = emitted]_vars

(***************************************************************************)
(* Claims about the teardown of the audio (checked under SpecAudio).       *)
(***************************************************************************)
\* C33: after the session is torn down no creature loop and no ambient loop
\* that the session started is playing, a loop whose start was still pending
\* at the teardown included.
C33_SilentAfterTeardown ==
  ~engine.mounted =>
    /\ \A i \in LoopOwners : Playing(i) = {}
    /\ AmbientPlaying = {}

(***************************************************************************)
(* Claims about the de-duplication memory (checked under SpecSpeech).      *)
(***************************************************************************)
\* The text of the utterance an announcer handed over last, while that
\* utterance is still in the speech queue; "" when it has none there.
LastQueuedText(a) ==
  LET mine == {j \in 1..Len(speech.queue) : speech.queue[j].owner = a}
  IN IF mine = {} THEN ""
     ELSE speech.queue[CHOOSE j \in mine : \A i \in mine : i <= j].text

\* C34: while text X is the announcer's most recently spoken text and its
\* utterance has not completed, a speak(X) at the default priority is
\* suppressed, whatever earlier utterances completed in between: the
\* memory-clear timer of an earlier utterance does not erase the memory of a
\* later one.
C34_MemoryOutlivesEarlierTimer ==
  [][(said'.n # said.n /\ said'.priority = "polite"
        /\ LastQueuedText(said'.owner) = said'.text)
       => speech' = speech]_vars

\* C37: after an utterance of text X has completed and its grace delay has
\* elapsed with no speak call of the announcer in between, a speak(X) at the
\* default priority is spoken again: its utterance is handed to the speech
\* queue.
C37_SpokenAgainAfterGrace ==
  [][(said'.n # said.n /\ said'.priority = "polite" /\ talkBackEnabled
        /\ said.ended[said'.owner].elapsed
        /\ said.ended[said'.owner].text = said'.text)
       => /\ speech'.handed = speech.handed + 1
          /\ speech'.queue =
               Append(speech.queue, [owner |-> said'.owner, text |-> said'.text])]_vars

\* The latest call repeated, after the grace delay, the text of an utterance
\* that had completed, and its utterance was handed over.
C37_Witness ==
  /\ said.n > 1 /\ said.priority = "polite"
  /\ said.owner = "box"
  /\ said.afterGrace
  /\ said.inFlightBefore = 0
  /\ speech.handed = said.handedBefore + 1
  /\ speech.queue = <<[owner |-> "box", text |-> said.text]>>
  /\ speech.lastSpokenText["box"] = said.text

(***************************************************************************)
(* Claims about one position update (checked under SpecDispatch).          *)
(***************************************************************************)
\* C35: within one position update the mode dispatcher recomputes the target
\* and decoy samples from the current cursor position, issues its commands
\* from them and then evaluates the discovery threshold on the same distance:
\* after the update the published decoy samples are those of the current
\* position, and the discovery decision was taken and is the one for the
\* current position.
C35_UpdateUsesCurrentPosition ==
  [][(nTicks' = nTicks + 1) =>
       /\ tick'.discoveryChecked
       /\ engine'.isFound = DiscoveryCheck(accessibilityMode, visualModeDef, level,
                                           engine'.cursorPosition)
       /\ accessibilityMode = "multi-sensory" =>
            \A d \in 1..Len(decoys(level)) :
              published'.decoyProximities[d] =
                (Proximity(Distance(engine'.cursorPosition, decoys(level)[d].position),
                           decoys(level)[d].radius)
                 * decoys(level)[d].intensity) \div 1000]_vars

\* C36: in audio-first mode, when the adjusted proximity is above the level's
\* activation threshold and differs from the last emitted proximity by more
\* than 0.1, the primary audio command is emitted on that update whatever the
\* time since the last emission; the last emitted value and the last trigger
\* time change only on an update that emits the command.
C36_SignificantChangeOverrides ==
  [][(accessibilityMode = "audio-first" /\ nTicks' = nTicks + 1) =>
       LET adjustedProximity == AudioModeProximity(engine'.cursorPosition, level)
       IN /\ (/\ adjustedProximity > minProximityForSound[level]
               /\ Abs(adjustedProximity - refs.lastProximityRef) > SignificantChange)
               => /\ tick'.audioGap = now' - refs.lastPlayTimeRef
                  /\ emitted'["audio"].last = now'
                  /\ emitted'["audio"].override
                  /\ refs'.lastProximityRef = adjustedProximity
                  /\ refs'.lastPlayTimeRef = now'
          /\ tick'.audioGap = 0
               => /\ refs'.lastProximityRef = refs.lastProximityRef
                  /\ refs'.lastPlayTimeRef = refs.lastPlayTimeRef]_vars

\* An audio-first update issued the primary audio command on a significant
\* change although less than the level's update delay had passed since the
\* last one.
C36_Witness ==
  /\ accessibilityMode = "audio-first" /\ tick.ran
  /\ tick.audioGap > 0 /\ tick.audioGap <= audioUpdateDelay[level]
  /\ emitted["audio"].override
  /\ refs.lastPlayTimeRef = now

(***************************************************************************)
(* The primary haptic feedback of the Multi-Sensory mode (useHaptics).     *)
(* Proximities are in thousandths, pulse and pause lengths in ms; the      *)
(* platform truncates the lengths it is handed to whole ms.                *)
(***************************************************************************)
\* useHaptics.vibrate: pulses (the entries at even JavaScript indexes) are
\* amplified 1.5 times and capped at 400, pauses are passed on.  The pattern
\* handed in is in thousandths of ms.
vibrate(pattern) ==
  [k \in 1..Len(pattern) |->
     IF k % 2 = 1 THEN Min(400000, (pattern[k] * 3) \div 2) \div 1000
                  ELSE pattern[k] \div 1000]

\* Math.min(400, Math.floor(250 * Math.pow(intensity, 1.8)))
vibrateWithIntensity(i) ==
  <<Min(400, (250 * ((i * Pow(i, 800)) \div 1000)) \div 1000)>>

\* vibrateProximityPattern: nothing below 0.3, a single pulse above 0.8, a
\* double pulse above 0.5, a single pulse otherwise.
vibrateProximityPattern(i) ==
  IF i < 300 THEN <<>>
  ELSE IF i > 800 THEN <<(i * 300) \div 1000>>
  ELSE IF i > 500
    THEN LET base == (i * 150) \div 1000
         IN <<base, 60, (base * 12) \div 10, 60>>
  ELSE <<(i * 100) \div 1000>>

\* Math.floor(proximityValue * 150 * (1 - (level - 1) * 0.15))
hapticStrength(prox, l) ==
  (prox * 150 * (1000 - (l - 1) * 150)) \div 1000000

\* The pattern the haptic branch of the effect hands to the platform.
primaryHaptic(def, prox, l) ==
  IF def = "part_001"
    THEN IF prox > 800 THEN vibrateProximityPattern(prox)
         ELSE IF prox > 500 THEN vibrateProximityPattern(prox)
         ELSE vibrateWithIntensity(prox)
    ELSE LET h == hapticStrength(prox, l)
         IN IF prox > 700 THEN vibrate(<<h * 1000>>)
            ELSE IF l <= 3 THEN vibrate(<<h * 1000, 100000, h * 700, 100000>>)
            ELSE vibrate(<<h * 700>>)

HapticProximities == {10 * k : k \in 0..100}

\* The haptic branch of a Multi-Sensory position update whose rate limit has
\* passed: proximityValue > hapticThreshold[level].
HapticFeedback(def, prox) ==
  /\ prox > hapticThreshold[level]
  /\ pulse' = [def |-> def, proximity |-> prox,
               pattern |-> primaryHaptic(def, prox, level)]
  /\ UNCHANGED <<sessionVars, audioVars, dispatchVars, announceVars, decoyVars,
                 mapperVars>>

HapticInit ==
  /\ level \in Levels
  /\ accessibilityMode = "multi-sensory"
  /\ visualModeDef = 1
  /\ SessionIdle
  /\ AudioRest
  /\ DispatchRest
  /\ AnnounceRest
  /\ DecoyRest
  /\ MapperRest
  /\ HapticRest

HapticNext ==
  \E def \in {"MultiSensoryMode.tsx", "part_001"}, prox \in HapticProximities :
    HapticFeedback(def, prox)

SpecHaptics == HapticInit /\ [][HapticNext]_vars

\* The single pulse the same component issues at proximity 1.
FullPulse == primaryHaptic(pulse.def, 1000, level)[1]

\* C38: the primary haptic pattern is chosen by proximity band: above 0.8 a
\* single pulse whose magnitude is proportional to proximity^1.8 (capped),
\* from 0.5 to 0.8 two pulses separated by a fixed gap, the second stronger
\* than the first, and below 0.5 a single weak pulse.
C38_HapticBands ==
  pulse.def # "none" =>
    /\ pulse.proximity > 800 =>
         /\ Len(pulse.pattern) = 1
         /\ Abs(pulse.pattern[1]
                - Min(400, (FullPulse * ((pulse.proximity * Pow(pulse.proximity, 800))
                                           \div 1000)) \div 1000)) <= 2
    /\ (pulse.proximity > 500 /\ pulse.proximity <= 800) =>
         /\ Len(pulse.pattern) = 4
         /\ pulse.pattern[2] = pulse.pattern[4]
         /\ pulse.pattern[3] > pulse.pattern[1]
    /\ pulse.proximity < 500 =>
         /\ Len(pulse.pattern) = 1
         /\ pulse.pattern[1] < FullPulse

(***************************************************************************)
(* Claims about the difficulty curve (checked under SpecMapper).           *)
(***************************************************************************)
\* The exponent each component applies to the linear proximity at level l,
\* in thousandths; 1000 where it applies none.
CurveExponent(ch, l) ==
  CASE ch = "primary"       -> power[l]
    [] ch = "audio"         -> audioPower[l]
    [] ch = "multi-sensory" -> sensoryCurve[l]
    [] ch = "visual"        -> IF l > 2 THEN 1000 + (l - 2) * 250 ELSE 1000
    [] OTHER                -> 1000

\* C39: for every mapper the curve exponent applied at levels 3, 4 and 5 is
\* strictly decreasing in the level, and at levels 1 and 2 the proximity is
\* the linear value clamp(1 - distance/expandedRadius, 0, 1).
C39_CurveByLevel ==
  sample.kind = "target" =>
    /\ level <= 2 =>
         sample.proximity =
           Proximity(sample.distance, ExpandedRadius(sample.channel, level))
    /\ level >= 3 =>
         \A a, b \in 3..5 :
           a < b => CurveExponent(sample.channel, a) > CurveExponent(sample.channel, b)

=============================================================================
